---- MODULE Spec2Model ----
(***************************************************************************)
(* Image-generation client layer of vincent: the error taxonomy, the       *)
(* backend clients (Gemini, Pollinations, Hugging Face), the retry engine  *)
(* executeWithRetry, the mock generator and the ImageGenerator facade.     *)
(*                                                                         *)
(* One generateImage call runs at a time.  The remote service, the file    *)
(* system and Math.random are the environment: each step draws what they   *)
(* answer from the small sets below.  Error messages are carried together  *)
(* with the set of keywords they contain (kw), because the code decides    *)
(* retryability with String.includes on the message text.                  *)
(***************************************************************************)
EXTENDS Integers, Sequences, FiniteSets, TLC

VARIABLES
    caller,        \* "facade": ImageGenerator.generateImage; "client": a client used directly
    mode,          \* "gemini" | "pollinations" | "huggingface" | "mock"
    retryConfig,   \* [maxAttempts, delays] of the client instance
    pc,            \* position of the running call
    cardId, question, outputDir, prompt,   \* arguments of the running call
    attempt,       \* loop variable of executeWithRetry
    lastError,     \* lastError of executeWithRetry
    delay,         \* the delay the engine is sleeping for
    calls,         \* backend invocations made by the running call
    hist,          \* per attempt: [raw |-> what the service answered, out |-> what the operation produced]
    sleeps,        \* the delays the engine has waited in the running call
    clientResult,  \* what client.generateImage returned or threw
    thrown,        \* the error the facade caught, if any
    result,        \* the GenerationResult returned by the facade
    dirs, files,   \* file system: existing directories, path -> bytes
    fsBefore,      \* the file system as it was when the running call began
    ncalls,        \* generateImage calls started so far
    hfClient,      \* HuggingFaceClient.client is set (connected)
    discoveredEndpoint,  \* HuggingFaceClient.discoveredEndpoint
    connections,   \* connections Client.connect has established for this client
    discoveries,   \* runs of discoverEndpoint
    apiInfo,       \* what view_api answers: [threw, endpoints]
    gradioResult,  \* what client.predict resolved with, given to extractImageData
    imageData,     \* what extractImageData returned or threw
    failureConfig, \* MockImageGenerator.failureConfig
    attemptCounts, \* MockImageGenerator.attemptCounts: request key -> attempts
    mockCalls,     \* request key -> generateMockImage calls since construction or resetAttempts
    mockLast,      \* the last generateMockImage call: key, counter before, mode, outcome
    apiKey, envKey,\* Gemini: constructor key, process.env.GEMINI_API_KEY
    sentKey,       \* Gemini: key sent with the last request
    \* processTxtDeck, the batch driver
    driver,        \* "cli": cli/process; "index": index.ts; "none": no batch is run
    input,         \* the deck file: [readable, lines]
    dryRun,        \* options.dryRun
    bpc,           \* position of processTxtDeck
    deck,          \* deck.cards
    idx,           \* position of the for loop in deck.cards
    completed, failed,  \* the loop's counters
    generatedImages,    \* Map card id -> image path
    logged,        \* the last message given to logger.warn / logger.error
    called,        \* card ids generateImage was called with, in order
    deckFile,      \* the enhanced deck at outputPath: the ids with an image tag
    batchError,    \* the error processTxtDeck rejected with
    \* several generateImage calls in flight on one ImageGenerator
    inflight       \* per call: its arguments, its position, what it holds and returned

vars == <<caller, mode, retryConfig, pc, cardId, question, outputDir, prompt,
          attempt, lastError, delay, calls, hist, sleeps, clientResult, thrown,
          result, dirs, files, fsBefore, ncalls, hfClient, discoveredEndpoint, connections,
          discoveries, apiInfo, gradioResult, imageData,
          failureConfig, attemptCounts, mockCalls, mockLast, apiKey, envKey,
          sentKey, driver, input, dryRun, bpc, deck, idx, completed, failed,
          generatedImages, logged, called, deckFile, batchError, inflight>>

\* the parts of the state one call leaves alone
config == <<caller, mode, retryConfig, apiKey, envKey>>
callArgs == <<cardId, question, outputDir, prompt, fsBefore, ncalls>>
hfState == <<hfClient, discoveredEndpoint, connections, discoveries, apiInfo>>
mockState == <<failureConfig, attemptCounts, mockCalls, mockLast>>
fsState == <<dirs, files>>
extraction == <<gradioResult, imageData>>
batch == <<driver, input, dryRun, bpc, deck, idx, completed, failed,
           generatedImages, logged, called, deckFile, batchError>>

----------------------------------------------------------------------------
(* Bounds of the model *)

MaxAttempts == 3       \* largest retryConfig.maxAttempts explored
MaxCalls == 2          \* generateImage calls per behaviour

CardIds == {7, 999999}
Questions == {"Q", "R"}
OutputDirs == {"/tmp/out"}

\* image payloads: empty, and two non-empty ones
PngBytes == <<137, 80, 78, 71>>
Bodies == {<< >>, PngBytes, <<255>>}

Undefined == "undefined"

----------------------------------------------------------------------------
(* Error taxonomy: src/utils/errors.ts *)

Err(cls, msg, kw) == [isError |-> TRUE, cls |-> cls, msg |-> msg, kw |-> kw, retryAfter |-> 0]

APIError(msg, kw) == Err("APIError", msg, kw)
NetworkError(msg, kw) == Err("NetworkError", msg, kw)
ConnectionError(msg, kw) == Err("ConnectionError", msg, kw)
NetworkTimeoutError(timeout) ==
    Err("NetworkTimeoutError", "Request timed out after " \o ToString(timeout) \o "s", {})
RateLimitError(retryAfter) ==
    [isError |-> TRUE, cls |-> "RateLimitError",
     msg |-> IF retryAfter # 0
             THEN "Rate limit exceeded, retry after " \o ToString(retryAfter) \o "s"
             ELSE "Rate limit exceeded. Please try again later.",
     kw |-> {}, retryAfter |-> retryAfter]
PlainError(msg, kw) == Err("Error", msg, kw)

\* a thrown value that is not an Error object
NonErrorValue == [isError |-> FALSE, cls |-> "value", msg |-> "", kw |-> {}, retryAfter |-> 0]
NoError == [isError |-> FALSE, cls |-> "none", msg |-> "", kw |-> {}, retryAfter |-> 0]

\* error instanceof APIError (RateLimitError extends APIError)
IsAPIError(e) == e.isError /\ e.cls \in {"APIError", "RateLimitError"}
\* error.message.includes(k)
Includes(e, k) == k \in e.kw

----------------------------------------------------------------------------
(* What the environment answers to one HTTP request (axios) *)

\* a response axios resolves with (validateStatus passed: a 2xx status)
Response(status, present, bytes) ==
    [t |-> "response", status |-> status, code |-> "", present |-> present,
     bytes |-> bytes, hasRetryAfter |-> FALSE, retryAfter |-> 0,
     stKw |-> {}, statusText |-> "", msg |-> "", kw |-> {}, err |-> NoError]

\* an AxiosError: code, response status (0: no response), Retry-After header,
\* reason phrase (with the keywords it contains) and the error's own message
AxiosError(code, status, hasRetryAfter, retryAfter, statusText, stKw, msg) ==
    [t |-> "axios", status |-> status, code |-> code, present |-> FALSE,
     bytes |-> << >>, hasRetryAfter |-> hasRetryAfter, retryAfter |-> retryAfter,
     stKw |-> stKw, statusText |-> statusText, msg |-> msg, kw |-> {}, err |-> NoError]

\* any other value the request promise rejects with
Rejected(e) ==
    [t |-> "thrown", status |-> 0, code |-> "", present |-> FALSE,
     bytes |-> << >>, hasRetryAfter |-> FALSE, retryAfter |-> 0,
     stKw |-> {}, statusText |-> "", msg |-> e.msg, kw |-> e.kw, err |-> e]

RetryAfterSeconds == 5   \* the Retry-After value a throttling service sends

Answers ==
    {Response(200, TRUE, b) : b \in Bodies}
    \cup {Response(200, FALSE, << >>), Response(204, TRUE, << >>)}
    \cup {AxiosError(c, 0, FALSE, 0, "", {}, "connect failed") : c \in {"ENOTFOUND", "ECONNREFUSED"}}
    \cup {AxiosError(c, 0, FALSE, 0, "", {}, "timeout of 30000ms exceeded") : c \in {"ECONNABORTED", "ETIMEDOUT"}}
    \cup {AxiosError("ERR_NETWORK", 0, FALSE, 0, "", {}, "Network Error")}
    \cup {AxiosError("ERR_BAD_REQUEST", 429, FALSE, 0, "Too Many Requests", {}, "Request failed with status code 429"),
          AxiosError("ERR_BAD_REQUEST", 429, TRUE, RetryAfterSeconds, "Too Many Requests", {}, "Request failed with status code 429"),
          AxiosError("ERR_BAD_REQUEST", 401, FALSE, 0, "Unauthorized", {}, "Request failed with status code 401"),
          AxiosError("ERR_BAD_REQUEST", 403, FALSE, 0, "Forbidden", {}, "Request failed with status code 403"),
          AxiosError("ERR_BAD_REQUEST", 400, FALSE, 0, "Bad Request", {}, "Request failed with status code 400"),
          AxiosError("ERR_BAD_RESPONSE", 500, FALSE, 0, "Internal Server Error", {}, "Request failed with status code 500")}
    \cup {Rejected(PlainError("socket hang up", {})), Rejected(NonErrorValue)}

Ok(bytes) == [ok |-> TRUE, bytes |-> bytes, err |-> NoError, path |-> Undefined]
Fail(e) == [ok |-> FALSE, bytes |-> << >>, err |-> e, path |-> Undefined]

----------------------------------------------------------------------------
(* PollinationsApiClient: src/image/api-client.ts *)

DefaultMaxAttempts == 3
PollinationsTimeoutMs == 30000
PollinationsDefaults ==
    [maxAttempts |-> DefaultMaxAttempts, delays |-> <<1000, 2000, 4000>>,
     timeoutMs |-> PollinationsTimeoutMs]

\* a mutant of PollinationsResponse: the body-length check is left out
PollinationsResponse_NoEmptyCheck(raw) ==
    IF raw.status # 200
    THEN Fail(APIError("API request failed with status " \o ToString(raw.status), {}))
    ELSE Ok(raw.bytes)

\* the try block after the request resolved (api-client.ts:156-165)
PollinationsResponse(raw) ==
    IF raw.status # 200
    THEN Fail(APIError("API request failed with status " \o ToString(raw.status), {}))
    ELSE IF ~raw.present \/ Len(raw.bytes) = 0
    THEN Fail(APIError("No image data received from API", {}))
    ELSE Ok(raw.bytes)

\* a mutant of PollinationsCatch: a 5xx is raised as a client error
PollinationsCatch_ServerAsClient(cfg, raw) ==
    IF raw.code \in {"ENOTFOUND", "ECONNREFUSED"}
    THEN Fail(ConnectionError("Could not connect to Pollinations image generation service", {}))
    ELSE IF raw.code \in {"ECONNABORTED", "ETIMEDOUT"}
    THEN Fail(NetworkTimeoutError(cfg.timeoutMs \div 1000))
    ELSE IF raw.status = 429
    THEN Fail(NetworkError("Rate limit exceeded", {}))
    ELSE IF raw.status >= 400
    THEN Fail(APIError("Client error: " \o ToString(raw.status) \o " - " \o raw.statusText, raw.stKw))
    ELSE Fail(Err("AxiosError", raw.msg, raw.kw))

\* the catch block for an AxiosError (api-client.ts:176-207)
PollinationsCatch(cfg, raw) ==
    IF raw.code \in {"ENOTFOUND", "ECONNREFUSED"}
    THEN Fail(ConnectionError("Could not connect to Pollinations image generation service", {}))
    ELSE IF raw.code \in {"ECONNABORTED", "ETIMEDOUT"}
    THEN Fail(NetworkTimeoutError(cfg.timeoutMs \div 1000))
    ELSE IF raw.status = 429
    THEN Fail(NetworkError(
             "Rate limit exceeded" \o
             (IF raw.hasRetryAfter /\ raw.retryAfter # 0
              THEN " (retry after " \o ToString(raw.retryAfter) \o "s)" ELSE ""), {}))
    ELSE IF raw.status >= 400 /\ raw.status < 500
    THEN Fail(APIError("Client error: " \o ToString(raw.status) \o " - " \o raw.statusText, raw.stKw))
    ELSE IF raw.status >= 500
    THEN Fail(NetworkError("Server error: " \o ToString(raw.status) \o " - " \o raw.statusText,
                           {"Server error"} \cup raw.stKw))
    ELSE Fail(Err("AxiosError", raw.msg, raw.kw))

\* the operation generateImage hands to executeWithRetry (one request); an
\* error thrown inside the try passes through the catch unchanged
PollinationsOperation(cfg, raw) ==
    IF raw.t = "response" THEN PollinationsResponse(raw)
    ELSE IF raw.t = "axios" THEN PollinationsCatch(cfg, raw)
    ELSE IF raw.err.isError THEN Fail(raw.err)
    ELSE Fail(PlainError("Unknown error occurred", {}))

\* a mutant of PollinationsNoRetry: instanceof VincentError for instanceof APIError
PollinationsNoRetry_VincentError(e) ==
    /\ e.isError
    /\ e.cls \in {"APIError", "RateLimitError", "NetworkError", "NetworkTimeoutError",
                  "ConnectionError"}
    /\ ~Includes(e, "Server error")

\* "Don't retry on certain error types" (api-client.ts:222)
PollinationsNoRetry(e) == IsAPIError(e) /\ ~Includes(e, "Server error")

----------------------------------------------------------------------------
(* HuggingFaceClient: src/image/huggingface-client.ts *)

HuggingFaceTimeoutMs == 60000
HuggingFaceDefaults ==
    [maxAttempts |-> DefaultMaxAttempts, delays |-> <<2000, 5000, 10000>>,
     timeoutMs |-> HuggingFaceTimeoutMs]

\* errors the gradio client (connect, predict) rejects with
GradioFailures ==
    {PlainError("queue is full", {"queue"}),
     PlainError("Space is offline", {"offline"}),
     PlainError("request timeout", {"timeout"}),
     PlainError("blocked by content policy", {"policy"}),
     PlainError("content unavailable due to policy", {"policy", "unavailable"}),
     PlainError("unexpected failure", {}),
     NonErrorValue}

\* what extractImageData makes of a predict result
ExtractOutcomes ==
    {Ok(b) : b \in Bodies}
    \cup {Fail(APIError("Unable to extract image data from Hugging Face response", {})),
          Fail(APIError("Failed to process Hugging Face response: Network Error", {})),
          Fail(APIError("Failed to process Hugging Face response: timeout of 30000ms exceeded", {"timeout"}))}

\* named endpoints view_api reports, each with the patterns its name contains
Endpoint(name, has) == [name |-> name, has |-> has]
EndpointLists ==
    {<< >>,
     <<Endpoint("/run", {"run"}), Endpoint("/predict", {"predict"})>>,
     <<Endpoint("/txt2img", {}), Endpoint("/infer", {"infer"})>>}

\* endpoints.find(ep => ep.includes(k)), Undefined when there is none
Find(eps, k) ==
    LET hits == {i \in 1..Len(eps) : k \in eps[i].has}
    IN  IF hits = {} THEN Undefined
        ELSE eps[CHOOSE i \in hits : \A j \in hits : i <= j].name

\* a mutant of DiscoverEndpoint: 'run' is looked for before 'generate'
DiscoverEndpoint_RunBeforeGenerate(viewApiThrew, eps) ==
    IF viewApiThrew \/ Len(eps) = 0 THEN "/predict"
    ELSE IF Find(eps, "predict") # Undefined THEN Find(eps, "predict")
    ELSE IF Find(eps, "run") # Undefined THEN Find(eps, "run")
    ELSE IF Find(eps, "generate") # Undefined THEN Find(eps, "generate")
    ELSE IF Find(eps, "infer") # Undefined THEN Find(eps, "infer")
    ELSE eps[1].name

\* discoverEndpoint: viewApiThrew |-> view_api threw
DiscoverEndpoint(viewApiThrew, eps) ==
    IF viewApiThrew \/ Len(eps) = 0 THEN "/predict"
    ELSE IF Find(eps, "predict") # Undefined THEN Find(eps, "predict")
    ELSE IF Find(eps, "generate") # Undefined THEN Find(eps, "generate")
    ELSE IF Find(eps, "run") # Undefined THEN Find(eps, "run")
    ELSE IF Find(eps, "infer") # Undefined THEN Find(eps, "infer")
    ELSE eps[1].name

\* the catch block of the operation (huggingface-client.ts:125-157)
HuggingFaceClassify(cfg, e) ==
    IF e.isError /\ (Includes(e, "queue") \/ Includes(e, "capacity"))
    THEN NetworkError("Hugging Face Space is busy (queue full)", {"queue"})
    ELSE IF e.isError /\ (Includes(e, "offline") \/ Includes(e, "building"))
    THEN ConnectionError("Hugging Face Space is currently unavailable", {"unavailable"})
    ELSE IF e.isError /\ (Includes(e, "timeout") \/ Includes(e, "aborted"))
    THEN NetworkTimeoutError(cfg.timeoutMs \div 1000)
    ELSE IF e.isError /\ (Includes(e, "inappropriate") \/ Includes(e, "policy"))
    THEN APIError("Content policy violation: " \o e.msg, e.kw \cup {"policy"})
    ELSE IF e.isError THEN e
    ELSE PlainError("Unknown error occurred", {})

\* the rest of the operation once the client is connected: predict, extract, check
HuggingFacePredict(cfg, predicted) ==
    IF ~predicted.ok THEN Fail(HuggingFaceClassify(cfg, predicted.err))
    ELSE IF Len(predicted.bytes) = 0
    THEN Fail(HuggingFaceClassify(cfg, APIError("No image data received from Hugging Face Space", {})))
    ELSE Ok(predicted.bytes)

\* a mutant of HuggingFaceNoRetry: only the network classes are retried
HuggingFaceNoRetry_OnlyNetworkClasses(e) ==
    e.cls \notin {"NetworkError", "ConnectionError", "NetworkTimeoutError"}

\* "Don't retry on certain error types" (huggingface-client.ts:350)
HuggingFaceNoRetry(e) ==
    IsAPIError(e) /\ ~Includes(e, "queue") /\ ~Includes(e, "unavailable")

----------------------------------------------------------------------------
(* executeWithRetry: api-client.ts:212-242, huggingface-client.ts:340-371 *)

\* delays[attempt - 1] || delays[delays.length - 1]
NextDelay(cfg, a) ==
    LET d == IF a <= Len(cfg.delays) THEN cfg.delays[a] ELSE 0
    IN  IF d # 0 THEN d ELSE cfg.delays[Len(cfg.delays)]

NoRetry(e) ==
    IF mode = "pollinations" THEN PollinationsNoRetry(e) ELSE HuggingFaceNoRetry(e)

\* error instanceof Error ? error : new Error('Unknown error')
ToError(e) == IF e.isError THEN e ELSE PlainError("Unknown error", {})

\* where a finished client call continues: in the facade, or at its direct caller
ClientDonePc == IF caller = "facade" THEN "clientDone" ELSE "done"

\* the hint of a throttled answer, in seconds (0: none)
HintOf(raw) == IF raw.status = 429 /\ raw.hasRetryAfter THEN raw.retryAfter ELSE 0

\* the body of an answer: "none" (no response), "missing", "empty" or "data"
BodyOf(raw) ==
    IF raw.t # "response" THEN "none"
    ELSE IF ~raw.present THEN "missing"
    ELSE IF Len(raw.bytes) = 0 THEN "empty" ELSE "data"

\* what the call remembers of one backend invocation: the answer's status,
\* Retry-After hint and body, and what the operation made of it
Invocation(status, hint, body, out) ==
    [status |-> status, hint |-> hint, body |-> body, out |-> out]

\* a mutant of LastAttempt: the loop gives up one attempt late
LastAttempt_OneMore(cfg, a) == a = cfg.maxAttempts + 1

\* a mutant of LastAttempt: the loop runs twice as long
LastAttempt_TwiceAsLate(cfg, a) == a = 2 * cfg.maxAttempts

\* "If this was the last attempt, throw the error"
LastAttempt(cfg, a) == a = cfg.maxAttempts

\* the body of the for loop, after operation(attempt) produced out
EngineStep(status, hint, body, out) ==
    /\ calls' = calls + 1
    /\ hist' = Append(hist, Invocation(status, hint, body, out))
    /\ IF out.ok
       THEN /\ clientResult' = out
            /\ pc' = ClientDonePc
            /\ UNCHANGED <<lastError, delay>>
       ELSE /\ lastError' = ToError(out.err)
            /\ IF NoRetry(out.err)
               THEN /\ clientResult' = Fail(out.err)
                    /\ pc' = ClientDonePc
                    /\ UNCHANGED delay
               ELSE IF LastAttempt(retryConfig, attempt)
               THEN /\ clientResult' = Fail(lastError')
                    /\ pc' = ClientDonePc
                    /\ UNCHANGED delay
               ELSE /\ delay' = NextDelay(retryConfig, attempt)
                    /\ pc' = "sleeping"
                    /\ UNCHANGED clientResult
    /\ UNCHANGED <<attempt, sleeps>>

PollinationsAttempt ==
    /\ pc = "attempt"
    /\ mode = "pollinations"
    /\ \E raw \in Answers :
          EngineStep(raw.status, HintOf(raw), BodyOf(raw),
                     PollinationsOperation(retryConfig, raw))
    /\ UNCHANGED <<config, extraction, inflight, batch, callArgs, hfState, mockState, fsState, thrown, result, sentKey>>

\* the setTimeout of the backoff fires; the loop goes to the next attempt
Wake ==
    /\ pc = "sleeping"
    /\ sleeps' = Append(sleeps, delay)
    /\ attempt' = attempt + 1
    /\ pc' = "attempt"
    /\ UNCHANGED <<config, extraction, inflight, batch, callArgs, hfState, mockState, fsState, lastError, delay,
                   calls, hist, clientResult, thrown, result, sentKey>>

\* a mutant of NeedsConnect: every run of the operation connects
NeedsConnect_Always == TRUE

\* "Initialize client if not already done": if (!this.client)
NeedsConnect == ~hfClient

\* one run of the Hugging Face operation: connect and discover on first use,
\* then predict and extract
HuggingFaceAttempt ==
    /\ pc = "attempt"
    /\ mode = "huggingface"
    /\ \/ /\ NeedsConnect
          /\ \E e \in GradioFailures :
                EngineStep(0, 0, "none", Fail(HuggingFaceClassify(retryConfig, e)))
          /\ UNCHANGED hfState
       \/ /\ NeedsConnect
          /\ hfClient' = TRUE
          /\ connections' = connections + 1
          /\ discoveries' = discoveries + 1
          /\ UNCHANGED apiInfo
          /\ \E d \in ({<<TRUE, << >> >>} \cup {<<FALSE, eps>> : eps \in EndpointLists}) :
                discoveredEndpoint' = DiscoverEndpoint(d[1], d[2])
          /\ \E predicted \in {Fail(e) : e \in GradioFailures} \cup ExtractOutcomes :
                EngineStep(0, 0, "none", HuggingFacePredict(retryConfig, predicted))
       \/ /\ ~NeedsConnect
          /\ \E predicted \in {Fail(e) : e \in GradioFailures} \cup ExtractOutcomes :
                EngineStep(0, 0, "none", HuggingFacePredict(retryConfig, predicted))
          /\ UNCHANGED hfState
    /\ UNCHANGED <<config, extraction, inflight, batch, callArgs, mockState, fsState, thrown, result, sentKey>>

----------------------------------------------------------------------------
(* The authenticated backend: GeminiApiClient (api-client.ts:10-90) and      *)
(* ImageGenerator.requestImageGeneration (generator.ts:69-138)               *)

\* this.apiKey || process.env.GEMINI_API_KEY
GetApiKey == IF apiKey # "" THEN apiKey ELSE envKey

\* a mutant of GeminiCatch: the 401 branch is missing
GeminiCatch_No401(raw) ==
    IF raw.code \in {"ENOTFOUND", "ECONNREFUSED"}
    THEN Fail(NetworkError("Could not connect to image generation service", {}))
    ELSE IF raw.status = 429
    THEN Fail(APIError("Rate limit exceeded. Please try again later.", {}))
    ELSE IF raw.status = 403 THEN Fail(APIError("API quota exceeded", {}))
    ELSE Fail(APIError("API error: " \o raw.msg, raw.kw))

\* the catch block for an AxiosError (generator.ts:102-114, api-client.ts:65-77)
GeminiCatch(raw) ==
    IF raw.code \in {"ENOTFOUND", "ECONNREFUSED"}
    THEN Fail(NetworkError("Could not connect to image generation service", {}))
    ELSE IF raw.status = 401 THEN Fail(APIError("Invalid API key", {}))
    ELSE IF raw.status = 429
    THEN Fail(APIError("Rate limit exceeded. Please try again later.", {}))
    ELSE IF raw.status = 403 THEN Fail(APIError("API quota exceeded", {}))
    ELSE Fail(APIError("API error: " \o raw.msg, raw.kw))

\* requestImageGeneration / GeminiApiClient.generateImage: one request, no retry
GeminiRequest(raw) ==
    IF raw.t = "response" THEN
        IF raw.status # 200
        THEN Fail(APIError("API request failed with status " \o ToString(raw.status), {}))
        ELSE IF ~raw.present
        THEN Fail(Err("TypeError", "The first argument must be of type string or an instance of Buffer", {}))
        ELSE Ok(raw.bytes)
    ELSE IF raw.t = "axios" THEN GeminiCatch(raw)
    ELSE Fail(raw.err)

\* what the call remembers of its request: as Invocation, and the error code
GeminiInvocation(raw) ==
    [status |-> raw.status, hint |-> HintOf(raw), body |-> BodyOf(raw),
     out |-> GeminiRequest(raw), code |-> raw.code]

\* the Gemini clients have no retry loop
GeminiConfig == [maxAttempts |-> 1, delays |-> << >>, timeoutMs |-> 30000]

GeminiAttempt ==
    /\ pc = "request"
    /\ mode = "gemini"
    /\ IF GetApiKey = ""
       THEN /\ clientResult' = Fail(APIError("No API key provided", {}))
            /\ UNCHANGED <<calls, hist, sentKey>>
       ELSE \E raw \in Answers :
            /\ calls' = calls + 1
            /\ hist' = Append(hist, GeminiInvocation(raw))
            /\ sentKey' = GetApiKey
            /\ clientResult' = GeminiRequest(raw)
    /\ pc' = ClientDonePc
    /\ UNCHANGED <<config, extraction, inflight, batch, callArgs, hfState, mockState, fsState, attempt, lastError,
                   delay, sleeps, thrown, result>>

----------------------------------------------------------------------------
(* File output: saveImage (huggingface-client.ts:504-513, generator.ts:120-129) *)
(* and the same lines of MockImageGenerator.generateMockImage                   *)

RECURSIVE PadStart(_, _, _)
\* String.prototype.padStart with a one-character fill
PadStart(str, n, fill) == IF Len(str) >= n THEN str ELSE PadStart(fill \o str, n, fill)

\* a mutant of FileName: the last three digits of the id only
FileName_LastThreeDigits(id) == "card-" \o PadStart(ToString(id % 1000), 3, "0") \o ".png"

\* `card-${cardId.toString().padStart(3, '0')}.png`
FileName(id) == "card-" \o PadStart(ToString(id), 3, "0") \o ".png"
\* path.join(outputDir, fileName)
FilePath(dir, id) == dir \o "/" \o FileName(id)

\* what the file system does with ensureDir + writeFile
FsOutcomes == {"ok", "mkdirFails", "writeFails"}

FsError(fs) ==
    IF fs = "mkdirFails" THEN PlainError("EACCES: permission denied, mkdir", {})
    ELSE PlainError("ENOSPC: no space left on device, write", {})

DirsAfter(fs, dir) == IF fs = "mkdirFails" THEN dirs ELSE dirs \cup {dir}
FilesAfter(fs, path, bytes) ==
    IF fs = "ok"
    THEN [p \in DOMAIN files \cup {path} |-> IF p = path THEN bytes ELSE files[p]]
    ELSE files

\* the directories and files at one moment
NoSnapshot == [dirs |-> {}, files |-> << >>]
Snapshot == [dirs |-> dirs, files |-> files]

\* ensureDir cannot fail on a directory that is already there
FsPossible(dir) == {fs \in FsOutcomes : fs = "mkdirFails" => dir \notin dirs}

----------------------------------------------------------------------------
(* MockImageGenerator: src/unnamed/part_010 *)

FailureModes == {"none", "connection", "timeout", "ratelimit", "server", "random"}
FailureTypes == {"connection", "timeout", "ratelimit", "server"}
\* failureRate and Math.random() in tenths
FailureRates == {0, 5, 10}
RandomDraws == {0, 4, 9}

MockDefaults == [failureMode |-> "none", failureRate |-> 0, maxAttempts |-> 1]

\* a mutant of RequestKey: the card id is left out of the key
RequestKey_QuestionOnly(id, q) == q

\* `${cardId}-${question}`
RequestKey(id, q) == ToString(id) \o "-" \o q

\* this.attemptCounts.get(requestKey) || 0
AttemptCount(key) == IF key \in DOMAIN attemptCounts THEN attemptCounts[key] ELSE 0

\* the switch of simulateNetworkFailure
MockFailure(type) ==
    IF type = "connection"
    THEN ConnectionError("Mock: Could not connect to image generation service", {})
    ELSE IF type = "timeout" THEN NetworkTimeoutError(30)
    ELSE IF type = "ratelimit" THEN RateLimitError(2)
    ELSE IF type = "server" THEN APIError("Mock: Server error: 500", {"Server error"})
    ELSE ConnectionError("Mock: Unknown network error", {})

\* a mutant of ShouldFail: > for >= in the threshold test
ShouldFail_StrictThreshold(cfg, currentAttempt, draw) ==
    /\ cfg.failureMode # "none"
    /\ ~(currentAttempt > (IF cfg.maxAttempts # 0 THEN cfg.maxAttempts ELSE 1))
    /\ IF cfg.failureMode = "random"
       THEN draw < (IF cfg.failureRate # 0 THEN cfg.failureRate ELSE 5)
       ELSE TRUE

\* a mutant of ShouldFail: the threshold test applies to the mode the
\* generator was given last only while it is 'connection'
ShouldFail_ThresholdForConnection(cfg, currentAttempt, draw) ==
    /\ cfg.failureMode # "none"
    /\ ~(cfg.failureMode = "connection"
          /\ currentAttempt >= (IF cfg.maxAttempts # 0 THEN cfg.maxAttempts ELSE 1))
    /\ IF cfg.failureMode = "random"
       THEN draw < (IF cfg.failureRate # 0 THEN cfg.failureRate ELSE 5)
       ELSE TRUE

\* simulateNetworkFailure decides to throw: draw is Math.random() of the
\* Bernoulli trial, in tenths
ShouldFail(cfg, currentAttempt, draw) ==
    /\ cfg.failureMode # "none"
    /\ ~(currentAttempt >= (IF cfg.maxAttempts # 0 THEN cfg.maxAttempts ELSE 1))
    /\ IF cfg.failureMode = "random"
       THEN draw < (IF cfg.failureRate # 0 THEN cfg.failureRate ELSE 5)
       ELSE TRUE

\* calls made for a key since construction or the last resetAttempts
CallsFor(key) == IF key \in DOMAIN mockCalls THEN mockCalls[key] ELSE 0

\* what is remembered of one generateMockImage call: its request key, which
\* call for the key it is, the key's counter before it, whether a failure
\* mode was in force (failureMode !== 'none'), and the outcome
MockCallRecord(key, nth, before, simulating, out) ==
    [key |-> key, nth |-> nth, before |-> before, simulating |-> simulating, out |-> out]
NoMockCall == MockCallRecord("", 0, 0, FALSE, Fail(NoError))

\* generateMockImage, whole: simulateNetworkFailure, then ensureDir + writeFile.
\* Sets out to what the call returns or throws.
GenerateMockImage(out) ==
    LET key == RequestKey(cardId, question)
        currentAttempt == AttemptCount(key) + 1
    IN  /\ attemptCounts' =
              IF failureConfig.failureMode = "none" THEN attemptCounts
              ELSE [k \in DOMAIN attemptCounts \cup {key} |->
                        IF k = key THEN currentAttempt ELSE attemptCounts[k]]
        /\ \E draw \in RandomDraws, type \in FailureTypes \cup {failureConfig.failureMode},
              fs \in FsPossible(outputDir) :
              /\ failureConfig.failureMode # "random" =>
                    /\ draw = 0
                    /\ type = failureConfig.failureMode
              /\ IF ShouldFail(failureConfig, currentAttempt, draw)
                 THEN /\ fs = "ok"
                      /\ out = Fail(MockFailure(type))
                      /\ UNCHANGED fsState
                 ELSE /\ dirs' = DirsAfter(fs, outputDir)
                      /\ files' = FilesAfter(fs, FilePath(outputDir, cardId), PngBytes)
                      /\ out = IF fs = "ok"
                               THEN [ok |-> TRUE, bytes |-> PngBytes, err |-> NoError,
                                     path |-> FilePath(outputDir, cardId)]
                               ELSE Fail(FsError(fs))
        /\ calls' = calls + 1
        /\ hist' = Append(hist, Invocation(0, IF out.ok THEN 0 ELSE out.err.retryAfter, "none", out))
        /\ mockCalls' = [k \in DOMAIN mockCalls \cup {key} |->
                             IF k = key THEN CallsFor(key) + 1 ELSE mockCalls[k]]
        /\ mockLast' = MockCallRecord(key, CallsFor(key) + 1, AttemptCount(key),
                                      failureConfig.failureMode # "none", out)
        /\ UNCHANGED failureConfig

----------------------------------------------------------------------------
(* ImageGenerator facade: huggingface-client.ts:422-514 (mock, huggingface,  *)
(* pollinations) and generator.ts:14-139 (gemini)                            *)

\* PromptGenerator.generatePrompt, educational vocabulary template
GeneratePrompt(q, a) ==
    "Create a simple visual symbol representing '" \o q \o "' and '" \o a \o "'."

\* a mutant of FacadeCatch: error.message without the instanceof test
FacadeCatch_MessageOnly(id, e) ==
    [cardId |-> id, success |-> FALSE, imagePath |-> Undefined,
     error |-> IF e.isError THEN e.msg ELSE Undefined]

\* a mutant of FacadeCatch: error.name for error.message
FacadeCatch_Name(id, e) ==
    [cardId |-> id, success |-> FALSE, imagePath |-> Undefined,
     error |-> IF e.isError THEN e.cls ELSE "Unknown error"]

\* the catch block of generateImage
FacadeCatch(id, e) ==
    [cardId |-> id, success |-> FALSE, imagePath |-> Undefined,
     error |-> IF e.isError THEN e.msg ELSE "Unknown error"]

FacadeSuccess(id, path) ==
    [cardId |-> id, success |-> TRUE, imagePath |-> path, error |-> Undefined]

NoResult == [cardId |-> 0, success |-> FALSE, imagePath |-> Undefined, error |-> Undefined]
NoClientResult == Fail(NoError)

\* where a call starts in each mode
StartPc ==
    IF mode = "mock" THEN "mock" ELSE IF mode = "gemini" THEN "request" ELSE "attempt"

\* a client used directly takes the prompt alone: generateImage(prompt)
PromptOnly == caller = "client" /\ mode # "mock"
DirectCardId == CHOOSE id \in CardIds : TRUE
DirectQuestion == CHOOSE q \in Questions : TRUE

\* generateImage(id, q, 'A', dir) begins; the facade builds the prompt first,
\* and the prompt collaborator may throw
Begin(id, q, dir, promptThrows) ==
    /\ PromptOnly => id = DirectCardId /\ q = DirectQuestion
    /\ cardId' = id
    /\ question' = q
    /\ outputDir' = dir
    /\ prompt' = GeneratePrompt(q, "A")
    /\ fsBefore' = Snapshot
    /\ promptThrows => caller = "facade"
    /\ IF promptThrows
       THEN /\ thrown' = Err("TypeError", "Cannot read properties of undefined", {})
            /\ result' = FacadeCatch(id, thrown')
            /\ pc' = "done"
       ELSE /\ thrown' = NoError
            /\ result' = NoResult
            /\ pc' = StartPc
    /\ attempt' = 1
    /\ lastError' = NoError
    /\ delay' = 0
    /\ calls' = 0
    /\ hist' = << >>
    /\ sleeps' = << >>
    /\ clientResult' = NoClientResult

\* a caller starts generateImage
Call ==
    /\ pc \in {"idle", "done"}
    /\ ncalls < MaxCalls
    /\ ncalls' = ncalls + 1
    /\ \E id \in CardIds, q \in Questions, dir \in OutputDirs, promptThrows \in BOOLEAN :
          Begin(id, q, dir, promptThrows)
    /\ UNCHANGED <<config, extraction, inflight, batch, hfState, mockState, fsState, sentKey>>

\* a mutant of ReachesSaveImage: saveImage is called whatever the client did
ReachesSaveImage_Always(out) == TRUE

\* const imageData = await client.generateImage(prompt) resolved, so that the
\* next statement, saveImage, is reached
ReachesSaveImage(out) == out.ok

\* the facade after its client returned or threw: saveImage, or the catch
FacadeAfterClient ==
    /\ pc = "clientDone"
    /\ IF ReachesSaveImage(clientResult)
       THEN \E fs \in FsPossible(outputDir) :
            /\ dirs' = DirsAfter(fs, outputDir)
            /\ files' = FilesAfter(fs, FilePath(outputDir, cardId), clientResult.bytes)
            /\ thrown' = IF fs = "ok" THEN NoError ELSE FsError(fs)
            /\ result' = IF fs = "ok"
                         THEN FacadeSuccess(cardId, FilePath(outputDir, cardId))
                         ELSE FacadeCatch(cardId, FsError(fs))
       ELSE /\ thrown' = clientResult.err
            /\ result' = FacadeCatch(cardId, clientResult.err)
            /\ UNCHANGED fsState
    /\ pc' = "done"
    /\ UNCHANGED <<config, extraction, inflight, batch, callArgs, hfState, mockState, attempt, lastError, delay,
                   calls, hist, sleeps, clientResult, sentKey>>

\* mock mode: generateMockImage is called directly, inside the facade's try
\* when the caller is the facade
MockGenerate ==
    /\ pc = "mock"
    /\ \E out \in {Fail(MockFailure(t)) : t \in FailureTypes \cup {Undefined}}
                  \cup {Fail(FsError(fs)) : fs \in FsOutcomes \ {"ok"}}
                  \cup {[ok |-> TRUE, bytes |-> PngBytes, err |-> NoError,
                         path |-> FilePath(outputDir, cardId)]} :
          /\ GenerateMockImage(out)
          /\ clientResult' = out
          /\ IF caller = "facade"
             THEN /\ thrown' = out.err
                  /\ result' = IF out.ok THEN FacadeSuccess(cardId, out.path)
                               ELSE FacadeCatch(cardId, out.err)
             ELSE UNCHANGED <<thrown, result>>
    /\ pc' = "done"
    /\ UNCHANGED <<config, extraction, inflight, batch, callArgs, hfState, attempt, lastError, delay, sleeps, sentKey>>

----------------------------------------------------------------------------
(* Initial states and the specification *)

\* delay tables a client is constructed with
DelayTables == {<<1000, 2000, 4000>>, <<0, 3000>>, <<500>>}

Configurations ==
    {[caller |-> "facade", mode |-> "gemini", retryConfig |-> GeminiConfig],
     [caller |-> "client", mode |-> "gemini", retryConfig |-> GeminiConfig],
     [caller |-> "facade", mode |-> "mock", retryConfig |-> GeminiConfig],
     [caller |-> "client", mode |-> "mock", retryConfig |-> GeminiConfig],
     [caller |-> "facade", mode |-> "pollinations", retryConfig |-> PollinationsDefaults],
     [caller |-> "facade", mode |-> "huggingface", retryConfig |-> HuggingFaceDefaults]}
    \cup {[caller |-> "client", mode |-> "pollinations",
           retryConfig |-> [PollinationsDefaults EXCEPT !.maxAttempts = n, !.delays = d]] :
             n \in 1..MaxAttempts, d \in DelayTables}
    \cup {[caller |-> "client", mode |-> "huggingface",
           retryConfig |-> [HuggingFaceDefaults EXCEPT !.maxAttempts = n]] :
             n \in 1..MaxAttempts}

MockConfigs ==
    {[failureMode |-> m, failureRate |-> 0, maxAttempts |-> n] :
        m \in FailureModes \ {"random"}, n \in 1..MaxAttempts}
    \cup {[failureMode |-> "random", failureRate |-> r, maxAttempts |-> n] :
        r \in FailureRates, n \in 1..MaxAttempts}

ApiKeys == {"", "test-api-key"}
EnvKeys == {"", "env-api-key"}

\* the calls one ImageGenerator serves at the same time
MaxConcurrent == 2     \* generateImage calls in flight together
Procs == 1..MaxConcurrent

\* a call that has not been started
NoCall ==
    [pc |-> "idle", cardId |-> 0, question |-> "", outputDir |-> "", prompt |-> "",
     attempt |-> 1, endpoint |-> Undefined, backend |-> "pending", imageData |-> << >>,
     fsFailed |-> FALSE, startedLast |-> FALSE, result |-> NoResult]
NoCalls == [p \in Procs |-> NoCall]

\* view_api has reported nothing
NoApiInfo == [threw |-> FALSE, endpoints |-> << >>]

\* no generateImage call has been made yet
IdleInit ==
    /\ files = << >>
    /\ fsBefore = NoSnapshot
    /\ attemptCounts = << >>
    /\ mockCalls = << >>
    /\ mockLast = NoMockCall
    /\ hfClient = FALSE
    /\ discoveredEndpoint = Undefined
    /\ connections = 0
    /\ discoveries = 0
    /\ sentKey = Undefined
    /\ pc = "idle"
    /\ cardId = 0
    /\ question = ""
    /\ outputDir = ""
    /\ prompt = ""
    /\ attempt = 1
    /\ lastError = NoError
    /\ delay = 0
    /\ calls = 0
    /\ hist = << >>
    /\ sleeps = << >>
    /\ clientResult = NoClientResult
    /\ thrown = NoError
    /\ result = NoResult
    /\ ncalls = 0
    /\ inflight = NoCalls

\* extractImageData is not running
NoGradioResult == [shape |-> "none"]
NoImageData == [ok |-> FALSE, bytes |-> << >>, err |-> NoError, path |-> Undefined]
NoExtraction ==
    /\ gradioResult = NoGradioResult
    /\ imageData = NoImageData

\* no enhanced deck at outputPath
NoDeckFile == [written |-> FALSE, ids |-> {}]

\* no batch is run
NoBatch ==
    /\ driver = "none"
    /\ input = [readable |-> FALSE, lines |-> 0]
    /\ dryRun = FALSE
    /\ bpc = "none"
    /\ deck = << >>
    /\ idx = 0
    /\ completed = 0
    /\ failed = 0
    /\ generatedImages = << >>
    /\ logged = Undefined
    /\ called = << >>
    /\ deckFile = NoDeckFile
    /\ batchError = NoError

Init ==
    /\ \E c \in Configurations :
          /\ caller = c.caller
          /\ mode = c.mode
          /\ retryConfig = c.retryConfig
    /\ failureConfig \in (IF mode = "mock" THEN MockConfigs ELSE {MockDefaults})
    /\ apiKey \in (IF mode = "gemini" THEN ApiKeys ELSE {""})
    /\ envKey \in (IF mode = "gemini" THEN EnvKeys ELSE {""})
    /\ dirs \in {{}, OutputDirs}
    /\ IdleInit
    /\ NoBatch
    /\ apiInfo = NoApiInfo
    /\ NoExtraction

Next ==
    \/ Call
    \/ PollinationsAttempt
    \/ HuggingFaceAttempt
    \/ GeminiAttempt
    \/ MockGenerate
    \/ Wake
    \/ FacadeAfterClient

Spec == Init /\ [][Next]_vars

\* the clients with a retry engine, under a scheduler that lets a pending
\* request settle (axios and the gradio client resolve or reject) and a
\* pending setTimeout fire
EngineInit == Init /\ mode \in {"pollinations", "huggingface"}

EngineNext ==
    \/ Call
    \/ PollinationsAttempt
    \/ HuggingFaceAttempt
    \/ Wake
    \/ FacadeAfterClient

EngineSpec ==
    /\ EngineInit
    /\ [][EngineNext]_vars
    /\ WF_vars(PollinationsAttempt)
    /\ WF_vars(HuggingFaceAttempt)
    /\ WF_vars(Wake)

----------------------------------------------------------------------------
(* The mock generator used on its own: generateMockImage, setFailureMode and *)
(* resetAttempts in any order (src/unnamed/part_010)                         *)

MaxMockCalls == 3      \* generateMockImage calls between two resetAttempts

\* calls made since construction or the last resetAttempts
RECURSIVE SumCalls(_)
SumCalls(keys) ==
    IF keys = {} THEN 0
    ELSE LET k == CHOOSE x \in keys : TRUE IN mockCalls[k] + SumCalls(keys \ {k})

\* setFailureMode(failureMode, failureRate?)
SetFailureMode ==
    /\ pc \in {"idle", "done"}
    /\ \E failureMode \in FailureModes \cup {Undefined},
          rateGiven \in BOOLEAN, failureRate \in FailureRates :
          /\ rateGiven => failureMode = "random"
          /\ ~rateGiven => failureRate = 0
          /\ failureConfig' =
                [failureConfig EXCEPT
                    !.failureMode = failureMode,
                    !.failureRate = IF rateGiven THEN failureRate ELSE @]
    /\ UNCHANGED <<config, extraction, inflight, batch, callArgs, hfState, fsState, attemptCounts, mockCalls,
                   mockLast, pc, attempt, lastError, delay, calls, hist, sleeps,
                   clientResult, thrown, result, sentKey>>

\* a mutant of ResetAttempts: the counters survive
ResetAttempts_KeepsCounters ==
    /\ pc \in {"idle", "done"}
    /\ mockCalls' = << >>
    /\ UNCHANGED <<config, extraction, inflight, batch, callArgs, hfState, fsState, failureConfig,
                   attemptCounts, mockLast, pc, attempt, lastError, delay, calls, hist,
                   sleeps, clientResult, thrown, result, sentKey>>

\* resetAttempts(): this.attemptCounts.clear()
ResetAttempts ==
    /\ pc \in {"idle", "done"}
    /\ attemptCounts' = << >>
    /\ mockCalls' = << >>
    /\ UNCHANGED <<config, extraction, inflight, batch, callArgs, hfState, fsState, failureConfig, mockLast, pc,
                   attempt, lastError, delay, calls, hist, sleeps, clientResult,
                   thrown, result, sentKey>>

\* a test calls generateMockImage(cardId, question, outputDir)
MockCall ==
    /\ pc \in {"idle", "done"}
    /\ SumCalls(DOMAIN mockCalls) < MaxMockCalls
    /\ \E id \in CardIds, dir \in OutputDirs : Begin(id, DirectQuestion, dir, FALSE)
    /\ UNCHANGED <<config, extraction, inflight, batch, hfState, mockState, fsState, sentKey, ncalls>>

\* a MockImageGenerator used on its own
MockInit == Init /\ caller = "client" /\ mode = "mock"

\* the generator keeps the configuration it was constructed with
MockNext ==
    \/ MockCall
    \/ MockGenerate
    \/ ResetAttempts

MockSpec == MockInit /\ [][MockNext]_vars

\* the failure mode is changed between calls
MockModeNext ==
    \/ MockCall
    \/ MockGenerate
    \/ SetFailureMode
    \/ ResetAttempts

\* here the output directory is there from the start
MockModeInit == MockInit /\ dirs = OutputDirs

MockModeSpec == MockModeInit /\ [][MockModeNext]_vars

----------------------------------------------------------------------------
(* One HuggingFaceClient over its lifetime: generateImage calls one after    *)
(* the other, with disconnect() between them or while a call waits           *)

MaxConnections == 2    \* connections one client establishes

\* disconnect(): if (this.client) this.client = null
Disconnect ==
    /\ mode = "huggingface"
    /\ pc \in {"idle", "done", "sleeping"}
    /\ connections < MaxConnections
    /\ hfClient' = FALSE
    /\ UNCHANGED <<config, extraction, inflight, batch, callArgs, discoveredEndpoint, connections,
                   discoveries, apiInfo, mockState, fsState, pc, attempt, lastError, delay, calls,
                   hist, sleeps, clientResult, thrown, result, sentKey>>

HfInit == Init /\ mode = "huggingface"

HfNext ==
    \/ Call
    \/ HuggingFaceAttempt
    \/ Wake
    \/ FacadeAfterClient
    \/ Disconnect

HfSpec == HfInit /\ [][HfNext]_vars

----------------------------------------------------------------------------
(* discoverEndpoint on its own (huggingface-client.ts:161-198): view_api     *)
(* answers with the named endpoints of the space, or throws                  *)

MaxEndpoints == 2      \* named endpoints a space reports

\* endpoint names, each with the patterns it contains
EndpointNames ==
    {Endpoint("/predict", {"predict"}), Endpoint("/run_predict", {"run", "predict"}),
     Endpoint("/generate", {"generate"}), Endpoint("/generate_image", {"generate"}),
     Endpoint("/run", {"run"}), Endpoint("/infer", {"infer"}),
     Endpoint("/txt2img", {}), Endpoint("/upscale", {})}

\* Object.keys(namedEndpoints): lists of different names
KeyLists ==
    {eps \in UNION {[1..k -> EndpointNames] : k \in 0..MaxEndpoints} :
        \A i, j \in 1..Len(eps) : i # j => eps[i] # eps[j]}

ApiInfos ==
    {[threw |-> TRUE, endpoints |-> << >>]}
    \cup {[threw |-> FALSE, endpoints |-> eps] : eps \in KeyLists}

\* await this.discoverEndpoint()
Discover ==
    /\ discoveries = 0
    /\ discoveredEndpoint' = DiscoverEndpoint(apiInfo.threw, apiInfo.endpoints)
    /\ discoveries' = discoveries + 1
    /\ UNCHANGED <<config, extraction, inflight, batch, callArgs, hfClient, connections, apiInfo,
                   mockState, fsState, pc, attempt, lastError, delay, calls, hist, sleeps,
                   clientResult, thrown, result, sentKey>>

\* a connected client about to discover the endpoint of its space
DiscoverInit ==
    /\ caller = "client"
    /\ mode = "huggingface"
    /\ retryConfig = HuggingFaceDefaults
    /\ failureConfig = MockDefaults
    /\ apiKey = ""
    /\ envKey = ""
    /\ dirs = {}
    /\ IdleInit
    /\ NoBatch
    /\ apiInfo \in ApiInfos
    /\ NoExtraction

DiscoverNext == Discover

DiscoverSpec == DiscoverInit /\ [][DiscoverNext]_vars

----------------------------------------------------------------------------
(* extractImageData on its own (huggingface-client.ts:200-317): predict has  *)
(* resolved with a result whose shape the space decides; the images it names *)
(* are fetched with axios.get, which answers with the image or throws        *)

MaxGallery == 2        \* image items in a gallery

\* something an image can be read from (a URL, a path, a data URI): absent,
\* yielding an image, or throwing when read (the fetch fails; a data URI
\* without a comma makes Buffer.from throw a TypeError)
NoLocator == [present |-> FALSE, throws |-> FALSE, bytes |-> << >>]
Serves(b) == [present |-> TRUE, throws |-> FALSE, bytes |-> b]
Broken == [present |-> TRUE, throws |-> TRUE, bytes |-> << >>]
Locators == {Serves(b) : b \in Bodies \ {<< >>}} \cup {Broken}

\* imageItem of a gallery: imageItem.image is missing, an object {url, path}
\* or a string
ImageItem(image, url, path) == [image |-> image, url |-> url, path |-> path]
ImageItems ==
    {ImageItem("none", NoLocator, NoLocator)}
    \cup {ImageItem("object", u, q) : u, q \in Locators \cup {NoLocator}}
    \cup {ImageItem("string", u, NoLocator) : u \in Locators}
\* the galleries of k image items
Galleries(k) == [1..k -> ImageItems]

\* element of result.data: a gallery array, a 'data:image/' string, an object
\* {url}, or anything else (the seed)
DataItem(kind, loc, items) == [kind |-> kind, loc |-> loc, items |-> items]
GalleryItem(g) == DataItem("gallery", NoLocator, g)
LegacyItems ==
    {DataItem("datauri", l, << >>) : l \in Locators}
    \cup {DataItem("urlobj", l, << >>) : l \in Locators}
    \cup {DataItem("other", NoLocator, << >>)}
\* result.data of a result whose gallery, if it has one, is g: empty, or a
\* first element (the gallery is looked for there only) alone or followed by
\* a second one, as in [gallery, seed]
DataArrays(g) ==
    {<< >>}
    \cup {<<first>> : first \in {GalleryItem(g)} \cup LegacyItems}
    \cup {<<first, second>> : first \in {GalleryItem(g)} \cup LegacyItems,
                              second \in LegacyItems}

GradioResult(shape, data, loc) == [shape |-> shape, data |-> data, loc |-> loc]
\* the results predict can resolve with whose gallery, if any, is g
GradioResults(g) ==
    {GradioResult("object", d, NoLocator) : d \in DataArrays(g)}
    \cup {GradioResult("array", <<GalleryItem(g)>>, NoLocator)}
    \cup {GradioResult("array", << >>, NoLocator)}
    \cup {GradioResult("string", << >>, l) : l \in Locators \cup {NoLocator}}
    \cup {GradioResult("other", << >>, NoLocator)}

\* one step of the function: nothing found yet, return, or throw
NotFound == [t |-> "next", bytes |-> << >>, msg |-> ""]
Returned(b) == [t |-> "return", bytes |-> b, msg |-> ""]
Threw(msg) == [t |-> "throw", bytes |-> << >>, msg |-> msg]

\* await axios.get(imageUrl, {responseType: 'arraybuffer'})
AxiosGet(l) == IF l.throws THEN Threw("Network Error") ELSE Returned(l.bytes)
\* Buffer.from(item.split(',')[1], 'base64')
FromBase64(l) ==
    IF l.throws THEN Threw("The first argument must be of type string")
    ELSE Returned(l.bytes)

\* for (const imageItem of galleryResult) of the {data: [[{image: {url, path}}]]} format
RECURSIVE ScanGallery(_, _)
ScanGallery(items, i) ==
    IF i > Len(items) THEN NotFound
    ELSE IF items[i].image = "object" /\ items[i].url.present THEN AxiosGet(items[i].url)
    ELSE IF items[i].image = "object" /\ items[i].path.present THEN AxiosGet(items[i].path)
    ELSE ScanGallery(items, i + 1)

\* for (const imageItem of galleryResult) of the array format; imageUrl.startsWith
\* is not a function when imageItem.image is an object
RECURSIVE ScanArrayGallery(_, _)
ScanArrayGallery(items, i) ==
    IF i > Len(items) THEN NotFound
    ELSE IF items[i].image = "string" THEN AxiosGet(items[i].url)
    ELSE IF items[i].image = "object" THEN Threw("imageUrl.startsWith is not a function")
    ELSE ScanArrayGallery(items, i + 1)

\* for (const item of result.data) of the legacy formats
RECURSIVE ScanLegacy(_, _)
ScanLegacy(data, i) ==
    IF i > Len(data) THEN NotFound
    ELSE IF data[i].kind = "datauri" THEN FromBase64(data[i].loc)
    ELSE IF data[i].kind = "urlobj" THEN AxiosGet(data[i].loc)
    ELSE ScanLegacy(data, i + 1)

HasGallery(r) == Len(r.data) > 0 /\ r.data[1].kind = "gallery"

\* the body of the try block: the first branch that returns or throws
ExtractSteps(r) ==
    LET gallery == IF r.shape = "object" /\ HasGallery(r)
                   THEN ScanGallery(r.data[1].items, 1) ELSE NotFound
        array == IF r.shape = "array" /\ HasGallery(r)
                 THEN ScanArrayGallery(r.data[1].items, 1) ELSE NotFound
        legacy == IF r.shape = "object" THEN ScanLegacy(r.data, 1) ELSE NotFound
        direct == IF r.shape = "string" /\ r.loc.present THEN FromBase64(r.loc) ELSE NotFound
    IN  IF gallery.t # "next" THEN gallery
        ELSE IF array.t # "next" THEN array
        ELSE IF legacy.t # "next" THEN legacy
        ELSE direct

UnableToExtract == APIError("Unable to extract image data from Hugging Face response", {})

\* private async extractImageData(result): Promise<Buffer>
ExtractImageData(r) ==
    LET step == ExtractSteps(r)
    IN  IF step.t = "return" THEN Ok(step.bytes)
        ELSE IF step.t = "next" THEN Fail(UnableToExtract)
        ELSE Fail(APIError("Failed to process Hugging Face response: " \o step.msg, {}))

\* const imageData = await this.extractImageData(result)
Extract ==
    /\ gradioResult.shape # "none"
    /\ imageData = NoImageData
    /\ imageData' = ExtractImageData(gradioResult)
    /\ UNCHANGED <<config, inflight, batch, callArgs, hfState, gradioResult,
                   mockState, fsState, pc, attempt, lastError, delay, calls, hist, sleeps,
                   clientResult, thrown, result, sentKey>>

\* predict has just resolved
ExtractInit ==
    /\ caller = "client"
    /\ mode = "huggingface"
    /\ retryConfig = HuggingFaceDefaults
    /\ failureConfig = MockDefaults
    /\ apiKey = ""
    /\ envKey = ""
    /\ dirs = {}
    /\ IdleInit
    /\ NoBatch
    /\ apiInfo = NoApiInfo
    /\ \E k \in 0..MaxGallery : \E g \in Galleries(k) :
          gradioResult \in GradioResults(g)
    /\ imageData = NoImageData

ExtractNext == Extract

ExtractSpec == ExtractInit /\ [][ExtractNext]_vars

----------------------------------------------------------------------------
(* processTxtDeck, the batch driver: cli/process (src/cli.ts:229-319, with   *)
(* writeEnhancedDeck, src/cli.ts:332-344) and src/index.ts:10-124            *)

MaxCards == 3          \* largest deck explored

Drivers == {"cli", "index"}

OutputPath == "/tmp/deck-illustrated.txt"
\* path.join(path.dirname(outputPath), 'vincent-output', 'images')
BatchOutputDir == "/tmp/vincent-output/images"

FileError(msg) == Err("FileError", msg, {})

\* the deck files given to the driver: unreadable, or with 0..MaxCards card lines
Inputs ==
    {[readable |-> FALSE, lines |-> 0]}
    \cup {[readable |-> TRUE, lines |-> n] : n \in 0..MaxCards}

\* a mutant of ParseTxt: two lines in a row are given the same id
ParseTxt_RepeatsIds(in) ==
    IF ~in.readable
    THEN [ok |-> FALSE, cards |-> << >>,
          err |-> FileError("Failed to parse text file: ENOENT: no such file or directory")]
    ELSE IF in.lines = 0
    THEN [ok |-> FALSE, cards |-> << >>, err |-> FileError("No cards found")]
    ELSE [ok |-> TRUE,
          cards |-> [i \in 1..in.lines |->
                        [id |-> (i + 1) \div 2, question |-> DirectQuestion, answer |-> "A"]],
          err |-> NoError]

\* TxtParser.parseTxt: the card of line i has id i; a file without card lines
\* is an error
ParseTxt(in) ==
    IF ~in.readable
    THEN [ok |-> FALSE, cards |-> << >>,
          err |-> FileError("Failed to parse text file: ENOENT: no such file or directory")]
    ELSE IF in.lines = 0
    THEN [ok |-> FALSE, cards |-> << >>, err |-> FileError("No cards found")]
    ELSE [ok |-> TRUE,
          cards |-> [i \in 1..in.lines |-> [id |-> i, question |-> DirectQuestion, answer |-> "A"]],
          err |-> NoError]

\* generatedImages.size
Size(map) == Cardinality(DOMAIN map)

\* what writer.writeEnhancedTxt meets: fs.writeFile, then fs.copy per image
WriteOutcomes == {"ok", "writeFails", "copyFails"}

\* path.join(path.dirname(outputPath), path.basename(imagePath))
CopyPath(id) == "/tmp/" \o FileName(id)

\* the files after the images of the map were copied next to the deck
FilesWithCopies(map) ==
    LET copied == {id \in DOMAIN map : map[id] \in DOMAIN files}
    IN  [p \in DOMAIN files \cup {CopyPath(id) : id \in copied} |->
            IF \E id \in copied : p = CopyPath(id)
            THEN files[map[CHOOSE id \in copied : p = CopyPath(id)]]
            ELSE files[p]]

\* a mutant of ReturnsEarly: the dry-run return is missing
ReturnsEarly_NoDryRun(parsed, dry) == Len(parsed.cards) = 0

\* the returns before any image is generated: deck.cards.length === 0, and
\* options.dryRun
ReturnsEarly(parsed, dry) == Len(parsed.cards) = 0 \/ dry

\* processTxtDeck up to the loop: parse, the empty and dry-run returns, the
\* output directory, and in index.ts the key from the environment
BatchStart ==
    /\ bpc = "start"
    /\ LET parsed == ParseTxt(input)
           stops == ~parsed.ok \/ ReturnsEarly(parsed, dryRun)
       IN  /\ deck' = parsed.cards
           /\ IF stops
              THEN /\ bpc' = IF parsed.ok THEN "resolved" ELSE "rejected"
                   /\ batchError' = parsed.err
                   /\ UNCHANGED <<dirs, idx>>
              ELSE \E fs \in FsPossible(BatchOutputDir) \ {"writeFails"} :
                   IF fs = "mkdirFails"
                   THEN /\ bpc' = "rejected"
                        /\ batchError' = FileError("Failed to create directory: " \o BatchOutputDir)
                        /\ UNCHANGED <<dirs, idx>>
                   ELSE /\ dirs' = dirs \cup {BatchOutputDir}
                        /\ IF driver = "index" /\ envKey = ""
                           THEN /\ bpc' = "rejected"
                                /\ batchError' = PlainError("No API key available", {})
                                /\ UNCHANGED idx
                           ELSE /\ bpc' = "loop"
                                /\ batchError' = NoError
                                /\ idx' = 1
    /\ UNCHANGED <<config, extraction, inflight, callArgs, hfState, mockState, files, sentKey, pc, attempt,
                   lastError, delay, calls, hist, sleeps, clientResult, thrown, result,
                   driver, input, dryRun, completed, failed, generatedImages, logged,
                   called, deckFile>>

\* the loop body up to the await: generateImage(card.id, card.question,
\* card.answer, outputDir) is called
BatchCallCard ==
    /\ bpc = "loop"
    /\ idx <= Len(deck)
    /\ completed' = completed + 1
    /\ called' = Append(called, deck[idx].id)
    /\ \E promptThrows \in BOOLEAN :
          Begin(deck[idx].id, deck[idx].question, BatchOutputDir, promptThrows)
    /\ bpc' = "await"
    /\ UNCHANGED <<config, extraction, inflight, hfState, mockState, fsState, sentKey, ncalls,
                   driver, input, dryRun, deck, idx, failed, generatedImages, logged,
                   deckFile, batchError>>

\* result.error || 'Unknown error'
ErrorOrUnknown(r) == IF r.error \in {Undefined, ""} THEN "Unknown error" ELSE r.error

\* the loop body after generateImage returned
BatchCollect ==
    /\ bpc = "await"
    /\ pc = "done"
    /\ IF result.success /\ result.imagePath \notin {Undefined, ""}
       THEN /\ generatedImages' =
                  [id \in DOMAIN generatedImages \cup {deck[idx].id} |->
                      IF id = deck[idx].id THEN result.imagePath ELSE generatedImages[id]]
            /\ UNCHANGED <<failed, logged>>
       ELSE /\ failed' = failed + 1
            /\ logged' = "Failed: " \o ErrorOrUnknown(result)
            /\ UNCHANGED generatedImages
    /\ bpc' = "delay"
    /\ UNCHANGED <<config, extraction, inflight, callArgs, hfState, mockState, fsState, sentKey, pc, attempt,
                   lastError, delay, calls, hist, sleeps, clientResult, thrown, result,
                   driver, input, dryRun, deck, idx, completed, called, deckFile,
                   batchError>>

\* a mutant of BatchDelay: the loop is left after a card that failed
BatchDelay_StopsAfterFailure ==
    /\ bpc = "delay"
    /\ idx' = IF result.success THEN idx + 1 ELSE Len(deck) + 1
    /\ bpc' = "loop"
    /\ UNCHANGED <<config, extraction, inflight, callArgs, hfState, mockState, fsState, sentKey, pc, attempt,
                   lastError, delay, calls, hist, sleeps, clientResult, thrown, result,
                   driver, input, dryRun, deck, completed, failed, generatedImages,
                   logged, called, deckFile, batchError>>

\* a mutant of NextCard: the card after the next one is taken
NextCard_SkipsOne(i) == i + 2

\* for (const card of deck.cards): the card after card i
NextCard(i) == i + 1

\* the one-second pause after a card is over; the loop goes to the next card
BatchDelay ==
    /\ bpc = "delay"
    /\ idx' = NextCard(idx)
    /\ bpc' = "loop"
    /\ UNCHANGED <<config, extraction, inflight, callArgs, hfState, mockState, fsState, sentKey, pc, attempt,
                   lastError, delay, calls, hist, sleeps, clientResult, thrown, result,
                   driver, input, dryRun, deck, completed, failed, generatedImages,
                   logged, called, deckFile, batchError>>

\* after the loop: writeEnhancedDeck (cli), or the size test of index.ts
BatchFinish ==
    /\ bpc = "loop"
    /\ idx > Len(deck)
    /\ IF Size(generatedImages) = 0
       THEN /\ IF driver = "cli"
               THEN /\ bpc' = "rejected"
                    /\ batchError' = PlainError("No images were generated successfully", {})
                    /\ logged' = "Processing failed: No images were generated successfully"
               ELSE /\ bpc' = "resolved"
                    /\ logged' = "No images were generated successfully"
                    /\ UNCHANGED batchError
            /\ UNCHANGED <<deckFile, files>>
       ELSE \E w \in WriteOutcomes :
            /\ deckFile' = IF w = "writeFails" THEN deckFile
                           ELSE [written |-> TRUE, ids |-> DOMAIN generatedImages]
            /\ files' = IF w = "ok" THEN FilesWithCopies(generatedImages) ELSE files
            /\ bpc' = IF w = "ok" THEN "resolved" ELSE "rejected"
            /\ batchError' =
                  IF w = "ok" THEN batchError
                  ELSE FileError("Failed to write enhanced text file: ENOSPC: no space left on device, write")
            /\ logged' =
                  IF w = "ok" THEN logged
                  ELSE "Processing failed: Failed to write enhanced text file: ENOSPC: no space left on device, write"
    /\ UNCHANGED <<config, extraction, inflight, callArgs, hfState, mockState, dirs, sentKey, pc, attempt,
                   lastError, delay, calls, hist, sleeps, clientResult, thrown, result,
                   driver, input, dryRun, deck, idx, completed, failed, generatedImages,
                   called>>

\* cli: new ImageGenerator(options.mock ? 'mock' : 'pollinations', style);
\* index.ts: new ImageGenerator(process.env.GEMINI_API_KEY, style)
BatchInit ==
    /\ driver \in Drivers
    /\ caller = "facade"
    /\ mode \in (IF driver = "cli" THEN {"mock", "pollinations"} ELSE {"gemini"})
    /\ retryConfig = (IF mode = "pollinations" THEN PollinationsDefaults ELSE GeminiConfig)
    /\ failureConfig = MockDefaults
    /\ envKey \in (IF driver = "index" THEN EnvKeys ELSE {""})
    /\ apiKey = envKey
    /\ dirs = {}
    /\ IdleInit
    /\ input \in Inputs
    /\ dryRun \in BOOLEAN
    /\ bpc = "start"
    /\ deck = << >>
    /\ idx = 0
    /\ completed = 0
    /\ failed = 0
    /\ generatedImages = << >>
    /\ logged = Undefined
    /\ called = << >>
    /\ deckFile = NoDeckFile
    /\ batchError = NoError
    /\ apiInfo = NoApiInfo
    /\ NoExtraction

BatchNext ==
    \/ BatchStart
    \/ BatchCallCard
    \/ PollinationsAttempt
    \/ Wake
    \/ GeminiAttempt
    \/ MockGenerate
    \/ FacadeAfterClient
    \/ BatchCollect
    \/ BatchDelay
    \/ BatchFinish

BatchSpec == BatchInit /\ [][BatchNext]_vars

----------------------------------------------------------------------------
(* Several generateImage calls in flight on one ImageGenerator, as in       *)
(* Promise.all([generator.generateImage(1, ...), generator.generateImage(2, *)
(* ...), ...]) (generator.test.ts:395-421). Each call is a chain of awaits; *)
(* between two awaits a call runs alone, so one action is the code from one *)
(* await to the next. The calls share the instance: the client with its     *)
(* connection and endpoint, the mock's attempt counters, and the file       *)
(* system. The loop variables of executeWithRetry are locals of each call.  *)

\* what one call leaves alone of the state of a call made on its own
single == <<question, outputDir, prompt, fsBefore, ncalls, pc, attempt, lastError, delay, calls,
            hist, sleeps, clientResult, thrown, result>>

\* what the services answer while several calls are in flight: an image, a
\* failure that is retried, and failures that end the call
ConcAnswers ==
    {Response(200, TRUE, b) : b \in Bodies \ {<< >>}}
    \cup {a \in Answers : a.t = "axios" /\ a.code = "ECONNREFUSED"}
    \cup {a \in Answers : a.t = "axios" /\ a.status \in {400, 500}}
ConcGradioFailures ==
    {e \in GradioFailures : e.kw \in {{"queue"}, {"policy"}}}
ConcExtractOutcomes ==
    {o \in ExtractOutcomes : o.ok => Len(o.bytes) > 0}

\* call p of the array is made for card p
ConcCardId(p) == p

\* the catch block of generateImage ends the call with a failure result
Caught(c, e) ==
    [c EXCEPT !.pc = "done", !.attempt = 1,
              !.backend = IF c.backend = "pending" THEN "failed" ELSE c.backend,
              !.result = FacadeCatch(c.cardId, e)]

\* the client returned imageData and its retry loop is over; the call goes on
\* to saveImage
Received(c, bytes) ==
    [c EXCEPT !.pc = "ensureDir", !.attempt = 1, !.backend = "ok", !.imageData = bytes]

\* the body of the for loop of executeWithRetry for call c, after
\* operation(attempt) produced out
AfterOperation(c, out) ==
    IF out.ok THEN Received(c, out.bytes)
    ELSE IF NoRetry(out.err) THEN Caught(c, out.err)
    ELSE IF LastAttempt(retryConfig, c.attempt) THEN Caught(c, ToError(out.err))
    ELSE [c EXCEPT !.pc = "sleeping"]

\* a mutant of SavedAs: the card id is taken from the call started last
SavedAs_LastStarted(p) == FilePath(inflight[p].outputDir, cardId)

\* saveImage's filePath: from the cardId and outputDir parameters of the call
SavedAs(p) == FilePath(inflight[p].outputDir, inflight[p].cardId)

\* generateImage(p, q, 'A', dir) is called: the prompt is built, and the call
\* runs up to its first await. All the calls ask the same question, so that
\* the card id alone keeps their request keys apart.
ConcStart(p) ==
    /\ inflight[p].pc = "idle"
    /\ \E q \in {DirectQuestion}, dir \in OutputDirs, promptThrows \in BOOLEAN :
          LET c == [NoCall EXCEPT !.cardId = ConcCardId(p), !.question = q,
                                  !.outputDir = dir,
                                  !.startedLast = \A o \in Procs \ {p} :
                                                     inflight[o].pc \notin {"idle", "done"}]
          IN  inflight' = [inflight EXCEPT ![p] =
                  IF promptThrows
                  THEN Caught(c, Err("TypeError", "Cannot read properties of undefined", {}))
                  ELSE [c EXCEPT !.pc = StartPc, !.prompt = GeneratePrompt(q, "A")]]
    /\ cardId' = ConcCardId(p)
    /\ UNCHANGED <<config, extraction, single, hfState, mockState, fsState, sentKey, batch>>

\* mock mode: simulateNetworkFailure of call p
ConcMock(p) ==
    /\ mode = "mock"
    /\ inflight[p].pc = "mock"
    /\ LET c == inflight[p]
           key == RequestKey(c.cardId, c.question)
           currentAttempt == AttemptCount(key) + 1
       IN  /\ attemptCounts' =
                 IF failureConfig.failureMode = "none" THEN attemptCounts
                 ELSE [k \in DOMAIN attemptCounts \cup {key} |->
                           IF k = key THEN currentAttempt ELSE attemptCounts[k]]
           /\ \E draw \in RandomDraws, type \in FailureTypes \cup {failureConfig.failureMode} :
                 /\ failureConfig.failureMode # "random" =>
                       /\ draw = 0
                       /\ type = failureConfig.failureMode
                 /\ inflight' = [inflight EXCEPT ![p] =
                        IF ShouldFail(failureConfig, currentAttempt, draw)
                        THEN Caught(c, MockFailure(type))
                        ELSE Received(c, PngBytes)]
    /\ UNCHANGED <<config, extraction, single, cardId, hfState, failureConfig, mockCalls, mockLast,
                   fsState, sentKey, batch>>

\* the request of call p to Pollinations is answered
ConcPollinations(p) ==
    /\ mode = "pollinations"
    /\ inflight[p].pc = "attempt"
    /\ \E out \in {PollinationsOperation(retryConfig, raw) : raw \in ConcAnswers} :
          inflight' = [inflight EXCEPT ![p] = AfterOperation(inflight[p], out)]
    /\ UNCHANGED <<config, extraction, single, cardId, hfState, mockState, fsState, sentKey, batch>>

\* the request of call p to Gemini is answered, or is not sent for want of a key
ConcGemini(p) ==
    /\ mode = "gemini"
    /\ inflight[p].pc = "request"
    /\ IF GetApiKey = ""
       THEN /\ inflight' = [inflight EXCEPT ![p] =
                   Caught(inflight[p], APIError("No API key provided", {}))]
            /\ UNCHANGED sentKey
       ELSE \E out \in {GeminiRequest(raw) : raw \in ConcAnswers} :
            /\ sentKey' = GetApiKey
            /\ inflight' = [inflight EXCEPT ![p] =
                   IF out.ok THEN Received(inflight[p], out.bytes)
                   ELSE Caught(inflight[p], out.err)]
    /\ UNCHANGED <<config, extraction, single, cardId, hfState, mockState, fsState, batch>>

\* this.discoveredEndpoint || "/predict"
EndpointOrDefault == IF discoveredEndpoint = Undefined THEN "/predict" ELSE discoveredEndpoint

\* Hugging Face, the operation of call p begins: with a client it calls
\* predict at once, on the endpoint known by then; without one it connects first
ConcHfBegin(p) ==
    /\ mode = "huggingface"
    /\ inflight[p].pc = "attempt"
    /\ inflight' = [inflight EXCEPT ![p] =
          IF NeedsConnect THEN [@ EXCEPT !.pc = "connect"]
          ELSE [@ EXCEPT !.pc = "predict", !.endpoint = EndpointOrDefault]]
    /\ UNCHANGED <<config, extraction, single, cardId, hfState, mockState, fsState, sentKey, batch>>

\* Client.connect of call p settles: this.client is assigned, or the catch
\* block classifies the failure
ConcHfConnected(p) ==
    /\ inflight[p].pc = "connect"
    /\ \/ /\ \E out \in {Fail(HuggingFaceClassify(retryConfig, e)) : e \in ConcGradioFailures} :
                inflight' = [inflight EXCEPT ![p] = AfterOperation(inflight[p], out)]
          /\ UNCHANGED hfState
       \/ /\ hfClient' = TRUE
          /\ connections' = connections + 1
          /\ inflight' = [inflight EXCEPT ![p].pc = "discover"]
          /\ UNCHANGED <<discoveredEndpoint, discoveries, apiInfo>>
    /\ UNCHANGED <<config, extraction, single, cardId, mockState, fsState, sentKey, batch>>

\* view_api of call p settles: discoverEndpoint assigns the endpoint, and the
\* call goes on to predict
ConcHfDiscovered(p) ==
    /\ inflight[p].pc = "discover"
    /\ discoveredEndpoint' \in {DiscoverEndpoint(d[1], d[2]) :
           d \in ({<<TRUE, << >> >>} \cup {<<FALSE, eps>> : eps \in EndpointLists})}
    /\ discoveries' = discoveries + 1
    /\ inflight' = [inflight EXCEPT ![p].pc = "predict", ![p].endpoint = discoveredEndpoint']
    /\ UNCHANGED <<config, extraction, single, cardId, hfClient, connections, apiInfo, mockState,
                   fsState, sentKey, batch>>

\* predict of call p settles; extractImageData and the length check follow
ConcHfPredicted(p) ==
    /\ inflight[p].pc = "predict"
    /\ \E out \in {HuggingFacePredict(retryConfig, predicted) :
                      predicted \in {Fail(e) : e \in ConcGradioFailures}
                                     \cup ConcExtractOutcomes} :
          inflight' = [inflight EXCEPT ![p] =
              AfterOperation([inflight[p] EXCEPT !.endpoint = Undefined], out)]
    /\ UNCHANGED <<config, extraction, single, cardId, hfState, mockState, fsState, sentKey, batch>>

\* the setTimeout of call p's backoff fires
ConcWake(p) ==
    /\ inflight[p].pc = "sleeping"
    /\ inflight' = [inflight EXCEPT ![p].pc = "attempt", ![p].attempt = @ + 1]
    /\ UNCHANGED <<config, extraction, single, cardId, hfState, mockState, fsState, sentKey, batch>>

\* fs.ensureDir(outputDir) of call p settles
ConcEnsureDir(p) ==
    /\ inflight[p].pc = "ensureDir"
    /\ \E fs \in FsPossible(inflight[p].outputDir) \ {"writeFails"} :
          /\ dirs' = DirsAfter(fs, inflight[p].outputDir)
          /\ inflight' = [inflight EXCEPT ![p] =
                IF fs = "ok" THEN [@ EXCEPT !.pc = "writeFile"]
                ELSE Caught([@ EXCEPT !.fsFailed = TRUE], FsError(fs))]
    /\ UNCHANGED <<config, extraction, single, cardId, hfState, mockState, files, sentKey, batch>>

\* fs.writeFile(filePath, imageData) of call p settles; the facade returns,
\* the mock generator first waits out its processing time
ConcWriteFile(p) ==
    /\ inflight[p].pc = "writeFile"
    /\ \E fs \in {"ok", "writeFails"} :
          /\ files' = FilesAfter(fs, SavedAs(p), inflight[p].imageData)
          /\ inflight' = [inflight EXCEPT ![p] =
                IF fs # "ok" THEN Caught([@ EXCEPT !.fsFailed = TRUE], FsError(fs))
                ELSE IF mode = "mock" THEN [@ EXCEPT !.pc = "processing"]
                ELSE [@ EXCEPT !.pc = "done",
                               !.result = FacadeSuccess(inflight[p].cardId, SavedAs(p))]]
    /\ UNCHANGED <<config, extraction, single, cardId, hfState, mockState, dirs, sentKey, batch>>

\* the mock generator's processing time of call p is over; it returns filePath
ConcMockProcessed(p) ==
    /\ inflight[p].pc = "processing"
    /\ inflight' = [inflight EXCEPT ![p].pc = "done",
                                    ![p].result = FacadeSuccess(inflight[p].cardId, SavedAs(p))]
    /\ UNCHANGED <<config, extraction, single, cardId, hfState, mockState, fsState, sentKey, batch>>

\* a fresh ImageGenerator; the output directory does not exist yet, so the
\* calls race to create it
ConcInit == Init /\ caller = "facade" /\ dirs = {}

ConcNext ==
    \/ \E p \in Procs : ConcStart(p)
    \/ \E p \in Procs : ConcMock(p)
    \/ \E p \in Procs : ConcPollinations(p)
    \/ \E p \in Procs : ConcGemini(p)
    \/ \E p \in Procs : ConcHfBegin(p)
    \/ \E p \in Procs : ConcHfConnected(p)
    \/ \E p \in Procs : ConcHfDiscovered(p)
    \/ \E p \in Procs : ConcHfPredicted(p)
    \/ \E p \in Procs : ConcWake(p)
    \/ \E p \in Procs : ConcEnsureDir(p)
    \/ \E p \in Procs : ConcWriteFile(p)
    \/ \E p \in Procs : ConcMockProcessed(p)

ConcSpec == ConcInit /\ [][ConcNext]_vars

----------------------------------------------------------------------------
(* Properties *)

MsPerSecond == 1000

EngineModes == {"pollinations", "huggingface"}

\* the running client call has ended (returned or thrown)
ClientEnded == pc \in {"clientDone", "done"}

\* an invocation failed with an error of a retryable kind of the taxonomy:
\* connection, timeout, rate limit (429, queue full) or server (5xx)
RetryableKind(h) ==
    /\ ~h.out.ok
    /\ \/ h.out.err.cls \in {"ConnectionError", "NetworkTimeoutError", "NetworkError"}
       \/ h.status = 429
       \/ h.status >= 500

\* an invocation failed with a client error of the taxonomy: a 4xx other than
\* 429, or a content-policy violation
ClientErrorKind(h) ==
    /\ ~h.out.ok
    /\ \/ (h.status >= 400 /\ h.status < 500 /\ h.status # 429)
       \/ (IsAPIError(h.out.err) /\ Includes(h.out.err, "policy"))

\* C1: when the backend fails with a retryable kind on attempts 1..N-1 and
\* succeeds on attempt N <= maxAttempts, executeWithRetry returns that success
\* after exactly N invocations: after each such failure below maxAttempts the
\* engine goes on to another attempt, and the first success ends the call with
\* that success as its result.
C1_RetryUntilSuccess ==
    mode \in EngineModes =>
        /\ \A k \in 1..Len(hist) :
              ((\A j \in 1..k : RetryableKind(hist[j])) /\ k < retryConfig.maxAttempts)
                 => (Len(hist) > k \/ pc \in {"sleeping", "attempt"})
        /\ \A n \in 1..Len(hist) :
              ((\A j \in 1..(n - 1) : RetryableKind(hist[j])) /\ hist[n].out.ok)
                 => /\ Len(hist) = n
                    /\ calls = n
                    /\ ClientEnded
                    /\ clientResult = hist[n].out

C1_Witness ==
    /\ mode \in EngineModes
    /\ retryConfig.maxAttempts = 3
    /\ Len(hist) = 3
    /\ RetryableKind(hist[1]) /\ hist[1].status = 429
    /\ RetryableKind(hist[2]) /\ hist[2].out.err.cls = "ConnectionError"
    /\ hist[3].out.ok
    /\ clientResult.ok
    /\ calls = 3

\* C2: a client error (bad request, invalid credentials, quota exhausted,
\* content-policy violation) raised by the backend on the first attempt ends
\* the call after that one invocation, and the call throws that error.
C2_ClientErrorOnce ==
    (mode \in EngineModes /\ Len(hist) >= 1 /\ ClientErrorKind(hist[1])) =>
        /\ Len(hist) = 1
        /\ calls = 1
        /\ ClientEnded
        /\ clientResult = Fail(hist[1].out.err)

\* C3: after an attempt that failed with a rate-limit answer carrying a retry
\* hint of r seconds, the engine has waited at least r seconds before the
\* next attempt.
C3_HintHonoured ==
    \A k \in 1..Len(sleeps) :
        hist[k].hint > 0 => sleeps[k] >= hist[k].hint * MsPerSecond

\* C4: a GenerationResult returned by the facade has exactly one of imagePath
\* and error set: imagePath alone on success, error alone on failure.
C4_ExactlyOneOfPathAndError ==
    (caller = "facade" /\ pc = "done") =>
        /\ result.success => (result.imagePath # Undefined /\ result.error = Undefined)
        /\ ~result.success => (result.error # Undefined /\ result.imagePath = Undefined)

C4_Witness ==
    /\ caller = "facade"
    /\ mode = "gemini"
    /\ pc = "done"
    /\ calls = 1
    /\ ~thrown.isError /\ thrown # NoError
    /\ ~result.success

\* C5: the facade's generateImage always returns a GenerationResult: an error
\* raised by prompt building, the backend, the retry engine or the file write
\* becomes {cardId, success: false, error}, error being the raised error's
\* message, or 'Unknown error' when the raised value is no Error.
C5_ErrorsBecomeResults ==
    (caller = "facade" /\ pc = "done") =>
        /\ clientResult.err # NoError => thrown = clientResult.err
        /\ (clientResult.ok /\ result.imagePath \notin DOMAIN files) => thrown # NoError
        /\ thrown # NoError =>
              result = [cardId |-> cardId, success |-> FALSE, imagePath |-> Undefined,
                        error |-> IF thrown.isError THEN thrown.msg ELSE "Unknown error"]
        /\ thrown = NoError => (result.success /\ result.cardId = cardId)

C5_Witness ==
    /\ caller = "facade"
    /\ pc = "done"
    /\ clientResult.ok
    /\ thrown.msg = "ENOSPC: no space left on device, write"
    /\ result.error = "ENOSPC: no space left on device, write"

\* C6: in mock, pollinations and huggingface mode alike the facade retries a
\* retryable backend failure: a facade call ends on such a failure only when
\* the attempts are used up, and a mock backend that fails before its success
\* threshold still gives a successful result.
C6_EveryModeRetries ==
    (caller = "facade" /\ pc = "done" /\ Len(hist) >= 1) =>
        /\ (mode \in EngineModes /\ RetryableKind(hist[Len(hist)]))
              => Len(hist) = retryConfig.maxAttempts
        /\ (mode = "mock" /\ thrown \notin {FsError(fs) : fs \in FsOutcomes})
              => result.success

\* C7: every backend generate call returns non-empty image bytes or raises.
C7_NoEmptySuccess ==
    \A i \in 1..Len(hist) : hist[i].out.ok => Len(hist[i].out.bytes) > 0

\* C8: for the Pollinations backend an answer with status 200 and a missing
\* or zero-length body is the client error 'No image data received from API':
\* it is never a success, no request follows it, and the call throws it.
C8_EmptyBodyFails ==
    mode = "pollinations" =>
        \A i \in 1..Len(hist) :
            (hist[i].status = 200 /\ hist[i].body \in {"missing", "empty"}) =>
                /\ ~hist[i].out.ok
                /\ IsAPIError(hist[i].out.err)
                /\ hist[i].out.err.msg = "No image data received from API"
                /\ i = Len(hist)
                /\ ClientEnded
                /\ clientResult = Fail(hist[i].out.err)
                /\ (caller = "facade" /\ pc = "done") => ~result.success

C8_Witness ==
    /\ mode = "pollinations"
    /\ caller = "facade"
    /\ pc = "done"
    /\ calls = 1
    /\ hist[1].status = 200
    /\ hist[1].body = "empty"
    /\ result.error = "No image data received from API"

C10_RateLimitRetried ==
    (mode = "gemini" /\ caller = "facade" /\ pc = "done"
        /\ Len(hist) >= 1 /\ hist[1].status = 429 /\ hist[1].hint > 0) =>
        /\ calls >= 2
        /\ Len(sleeps) >= 1
        /\ sleeps[1] >= hist[1].hint * MsPerSecond

----------------------------------------------------------------------------
(* The mock generator *)

\* the success threshold: failureConfig.maxAttempts
Threshold == failureConfig.maxAttempts

\* an error of the configured kind of simulated failure
OfKind(e, kind) ==
    /\ e.isError
    /\ \/ kind = "connection" /\ e.cls = "ConnectionError"
       \/ kind = "timeout" /\ e.cls = "NetworkTimeoutError"
       \/ kind = "ratelimit" /\ e.cls = "RateLimitError"
       \/ kind = "server" /\ e.cls = "APIError" /\ Includes(e, "Server error")

\* the outcome of a call that simulated no failure: the path of a written,
\* non-empty file, or the file system's own error
NoSimulatedFailure(out) ==
    IF out.ok
    THEN /\ out.path \in DOMAIN files
         /\ Len(files[out.path]) > 0
    ELSE out.err \in {FsError(fs) : fs \in FsOutcomes}

\* C11: with a non-random failure mode and threshold T >= 1 that stay as
\* constructed, the n-th generateMockImage call for a (cardId, question) key
\* fails with the configured kind when n < T, and from n = T on it simulates
\* no failure and writes a non-empty file (connection, T = 3: calls 1 and 2
\* fail with a connection error, call 3 succeeds).
C11_FailsBelowThreshold ==
    (mockLast # NoMockCall /\ failureConfig.failureMode \in FailureTypes) =>
        /\ mockLast.nth < Threshold =>
              (~mockLast.out.ok /\ OfKind(mockLast.out.err, failureConfig.failureMode))
        /\ mockLast.nth >= Threshold => NoSimulatedFailure(mockLast.out)

C11_Witness ==
    /\ failureConfig.failureMode = "connection"
    /\ Threshold = 3
    /\ mockLast.nth = 3
    /\ mockLast.key = RequestKey(7, "Q")
    /\ CallsFor(RequestKey(7, "Q")) = 3
    /\ mockLast.out.ok
    /\ Len(files[mockLast.out.path]) > 0

\* C12: once the attempt counter of a key has reached the threshold, every
\* generateMockImage call for that key simulates no failure, whatever failure
\* mode is set at that moment, as long as resetAttempts has not cleared the
\* counter.
C12_SucceedsAfterThreshold ==
    (mockLast # NoMockCall /\ mockLast.before >= Threshold) =>
        NoSimulatedFailure(mockLast.out)

C12_Witness ==
    /\ Threshold = 2
    /\ mockLast.before >= Threshold
    /\ mockLast.simulating
    /\ mockLast.nth > mockLast.before
    /\ failureConfig.failureMode = "server"
    /\ mockLast.out.ok
    /\ pc = "done" /\ clientResult = mockLast.out

----------------------------------------------------------------------------
(* Output files *)

\* the file names the cards are to get
ExpectedFileName(id) ==
    CASE id = 7 -> "card-007.png"
      [] id = 999999 -> "card-999999.png"

\* the bytes the backend of the running call produced
Produced == IF mode = "mock" THEN PngBytes ELSE clientResult.bytes

\* C13: on a successful facade call imagePath is outputDir joined with
\* 'card-' + cardId padded with zeros to 3 digits + '.png', outputDir exists,
\* and the file at imagePath holds exactly the bytes the backend produced,
\* which are not empty.
C13_SavedUnderCardName ==
    (caller = "facade" /\ pc = "done" /\ result.success) =>
        /\ result.imagePath = outputDir \o "/" \o ExpectedFileName(cardId)
        /\ outputDir \in dirs
        /\ result.imagePath \in DOMAIN files
        /\ files[result.imagePath] = Produced
        /\ Len(files[result.imagePath]) > 0

----------------------------------------------------------------------------
(* The batch driver *)

\* the for loop has been left
LoopOver == bpc \in {"resolved", "rejected"} /\ completed > 0

\* the ids of the first k cards of the deck, in deck order
IdsUpTo(k) == [i \in 1..k |-> deck[i].id]

\* C14: a card whose generateImage failed is counted and logged with its
\* error message, generateImage is still called for every remaining card (in
\* the end once for each card of the deck), and with at least one card
\* generated the enhanced deck is written, unless the file system refuses the
\* write.
C14_FailureDoesNotStopBatch ==
    /\ (bpc = "delay" /\ ~result.success) =>
          /\ logged = "Failed: " \o result.error
          /\ failed + Size(generatedImages) = idx
          /\ deck[idx].id \notin DOMAIN generatedImages
    /\ bpc \in {"await", "delay"} => called = IdsUpTo(idx)
    /\ LoopOver =>
          /\ called = IdsUpTo(Len(deck))
          /\ Size(generatedImages) >= 1 =>
                \/ deckFile = [written |-> TRUE, ids |-> DOMAIN generatedImages]
                \/ (bpc = "rejected" /\ batchError.cls = "FileError")

C14_Witness ==
    /\ bpc = "resolved"
    /\ Len(deck) = 3
    /\ called = <<1, 2, 3>>
    /\ failed = 1
    /\ DOMAIN generatedImages = {1, 3}
    /\ deckFile = [written |-> TRUE, ids |-> {1, 3}]

\* C15: when the loop over a non-empty deck ends without one generated
\* image, processTxtDeck rejects with an error and no enhanced deck is
\* written.
C15_NoSuccessRejects ==
    (LoopOver /\ Size(generatedImages) = 0) =>
        /\ bpc = "rejected"
        /\ batchError.isError
        /\ ~deckFile.written

----------------------------------------------------------------------------
(* The authenticated backend's key, file names, error classes *)

\* C17: the key a Gemini request carries is the key given to the
\* constructor, and without a constructor key no request is made whatever
\* GEMINI_API_KEY holds: the environment has no influence on the call.
C17_KeyFromConstructorOnly ==
    mode = "gemini" =>
        /\ sentKey # Undefined => sentKey = apiKey
        /\ apiKey = "" => calls = 0

\* card ids around the padding width
NameIds == {0, 1, 7, 10, 70, 100, 700, 1000, 1001, 7000, 999999}

\* C18: the file names of distinct card ids differ, so the images the batch
\* generated for distinct cards lie at distinct paths of the output
\* directory, each still there when the loop is over.
C18_DistinctPathsPerCard ==
    /\ bpc = "start" => \A a, b \in NameIds : a # b => FileName(a) # FileName(b)
    /\ \A a, b \in DOMAIN generatedImages :
          a # b => generatedImages[a] # generatedImages[b]
    /\ \A a \in DOMAIN generatedImages :
          /\ generatedImages[a] = FilePath(BatchOutputDir, a)
          /\ generatedImages[a] \in DOMAIN files

C18_Witness ==
    /\ bpc = "resolved"
    /\ Len(deck) = 3
    /\ DOMAIN generatedImages = {1, 2, 3}
    /\ Cardinality({generatedImages[a] : a \in DOMAIN generatedImages}) = 3

\* the error classes of the taxonomy that the retry engines retry
RetryableClasses == {"NetworkError", "ConnectionError", "NetworkTimeoutError", "RateLimitError"}

\* C20: the Gemini backend maps 401 and 403 to client errors (APIError,
\* invalid key / quota exceeded), 429 to a RateLimitError that carries the
\* Retry-After value when the header is present, a 5xx to a retryable server
\* error, ENOTFOUND / ECONNREFUSED to a retryable connection error, and a
\* request timeout to a NetworkTimeoutError.
C20_GeminiErrorClasses ==
    mode = "gemini" =>
        \A i \in 1..Len(hist) :
            LET h == hist[i]
                e == h.out.err
            IN  /\ h.status = 401 => (e.cls = "APIError" /\ e.msg = "Invalid API key")
                /\ h.status = 403 => (e.cls = "APIError" /\ e.msg = "API quota exceeded")
                /\ h.status = 429 =>
                      (e.cls = "RateLimitError" /\ (h.hint > 0 => e.retryAfter = h.hint))
                /\ h.status >= 500 =>
                      (e.cls \in RetryableClasses \/ Includes(e, "Server error"))
                /\ h.code \in {"ENOTFOUND", "ECONNREFUSED"} =>
                      e.cls \in {"ConnectionError", "NetworkError"}
                /\ h.code \in {"ECONNABORTED", "ETIMEDOUT"} => e.cls = "NetworkTimeoutError"

----------------------------------------------------------------------------
\* C19: when several generateImage calls for distinct cards are in flight on
\* one ImageGenerator and the backend succeeds for a call (and the file
\* system does not fail it), the call returns success = true with its own
\* cardId and the path of its own card, and the card's file exists from then
\* on with the image the backend gave that call, however the calls interleave.
C19_ConcurrentCallsKeepTheirCards ==
    \A p \in Procs :
        LET c == inflight[p]
        IN  c.pc = "done" /\ c.backend = "ok" /\ ~c.fsFailed =>
               /\ c.result = FacadeSuccess(ConcCardId(p), FilePath(c.outputDir, ConcCardId(p)))
               /\ c.result.imagePath \in DOMAIN files
               /\ files[c.result.imagePath] = c.imageData

\* all the calls have returned successfully, and at one time all of them were
\* in flight together
C19_Witness ==
    /\ \A p \in Procs : inflight[p].pc = "done" /\ inflight[p].result.success
    /\ \E p \in Procs : inflight[p].startedLast
    /\ Cardinality({inflight[p].result.imagePath : p \in Procs}) = MaxConcurrent

----------------------------------------------------------------------------
\* a step in which generateMockImage runs
Generates == pc = "mock" /\ pc' = "done"

\* no counter is lowered or removed in the step
CountersKept ==
    \A k \in DOMAIN attemptCounts :
        k \in DOMAIN attemptCounts' /\ attemptCounts'[k] >= attemptCounts[k]

\* C21: resetAttempts clears every attempt counter, so the first call made for
\* a key after it finds no counter and behaves as a first call (with a failure
\* mode other than 'none' and 'random' and a threshold above 1 it fails and
\* leaves the counter at 1); every step that is not resetAttempts keeps each
\* counter and never lowers it.
C21_ResetClearsCounters ==
    [][/\ ResetAttempts => attemptCounts' = << >>
       /\ ~ResetAttempts => CountersKept
       /\ Generates /\ CallsFor(RequestKey(cardId, question)) = 0 =>
             /\ AttemptCount(RequestKey(cardId, question)) = 0
             /\ failureConfig.failureMode \notin {"none", "random"} /\ Threshold > 1 =>
                   /\ ~clientResult'.ok
                   /\ clientResult'.err = MockFailure(failureConfig.failureMode)
                   /\ attemptCounts'[RequestKey(cardId, question)] = 1]_vars

\* a card whose image was written by an earlier successful call fails again
\* as a first call: resetAttempts was called in between
C21_Witness ==
    /\ failureConfig.failureMode \notin {"none", "random"}
    /\ Threshold > 1
    /\ pc = "done"
    /\ mockLast.key = RequestKey(cardId, question)
    /\ mockLast.nth = 1
    /\ mockLast.before = 0
    /\ mockLast.simulating
    /\ ~mockLast.out.ok
    /\ FilePath(outputDir, cardId) \in DOMAIN files
    /\ attemptCounts = (RequestKey(cardId, question) :> 1)

----------------------------------------------------------------------------
\* C22: every generateMockImage call raises the attempt counter of its key by
\* exactly one, whatever the failure mode, 'none' included, and leaves the
\* other counters alone.
C22_EveryCallCounts ==
    [][Generates =>
          /\ RequestKey(cardId, question) \in DOMAIN attemptCounts'
          /\ attemptCounts'[RequestKey(cardId, question)]
                = AttemptCount(RequestKey(cardId, question)) + 1
          /\ \A k \in DOMAIN attemptCounts' \ {RequestKey(cardId, question)} :
                k \in DOMAIN attemptCounts /\ attemptCounts'[k] = attemptCounts[k]]_vars

----------------------------------------------------------------------------
\* C23: in 'random' mode with the configuration as constructed, a call below
\* the threshold fails only as the draw against failureRate says: with
\* failureRate 0 no call simulates a failure, with failureRate 1 (10 tenths)
\* every call below the threshold fails.
C23_RandomFollowsRate ==
    (mockLast # NoMockCall /\ failureConfig.failureMode = "random") =>
        /\ failureConfig.failureRate = 0 => NoSimulatedFailure(mockLast.out)
        /\ failureConfig.failureRate = 10 /\ mockLast.nth < Threshold => ~mockLast.out.ok

----------------------------------------------------------------------------
(* The backoff of executeWithRetry *)

\* the delay the table gives for attempt k: its k-th entry, the last one
\* beyond its end
TableDelay(delays, k) == IF k <= Len(delays) THEN delays[k] ELSE delays[Len(delays)]

\* C24: after the failed non-final attempt k of a retrying client, when the
\* answer carried no retry hint, the engine waits delays[k-1] (0-based) when
\* k <= length(delays) and the last configured delay otherwise, for every
\* configured table.
C24_TableDelay ==
    mode \in EngineModes =>
        \A k \in 1..Len(sleeps) :
            hist[k].hint = 0 => sleeps[k] = TableDelay(retryConfig.delays, k)

\* C25: when all maxAttempts attempts of a retrying client fail with errors
\* of a retryable kind, the call ends with the error of the last attempt, and
\* the engine has waited maxAttempts - 1 times: it never sleeps after the
\* final attempt.
C25_LastErrorNoFinalSleep ==
    mode \in EngineModes =>
        /\ Len(sleeps) <= retryConfig.maxAttempts - 1
        /\ (Len(hist) = retryConfig.maxAttempts /\ \A k \in 1..Len(hist) : RetryableKind(hist[k]))
              => /\ ClientEnded
                 /\ calls = retryConfig.maxAttempts
                 /\ ~clientResult.ok
                 /\ clientResult.err = hist[retryConfig.maxAttempts].out.err
                 /\ Len(sleeps) = retryConfig.maxAttempts - 1

\* three attempts failed with different retryable errors, the last one was
\* raised, and two waits were made
C25_Witness ==
    /\ mode \in EngineModes
    /\ retryConfig.maxAttempts = 3
    /\ Len(hist) = 3
    /\ \A k \in 1..3 : RetryableKind(hist[k])
    /\ hist[1].out.err # hist[3].out.err
    /\ hist[2].out.err # hist[3].out.err
    /\ ClientEnded
    /\ clientResult.err = hist[3].out.err
    /\ Len(sleeps) = 2

\* the engine went on after attempt k
Retried(k) == Len(hist) > k \/ pc \in {"sleeping", "attempt"}

\* the delays configured in the table
TableEntries == {retryConfig.delays[i] : i \in 1..Len(retryConfig.delays)}

----------------------------------------------------------------------------
(* The queue-based client *)

\* the errors the catch block makes of queue/capacity and of offline/building
\* failures
QueueOrUnavailable ==
    {NetworkError("Hugging Face Space is busy (queue full)", {"queue"}),
     ConnectionError("Hugging Face Space is currently unavailable", {"unavailable"})}

\* C26: on the Hugging Face client a failure whose message carries
\* content-policy language is raised as a non-retryable client error (APIError)
\* and ends the call after that attempt; queue/capacity and offline/building
\* failures become network/connection errors and are retried while attempts
\* are left.
C26_PolicyEndsQueueRetries ==
    mode = "huggingface" =>
        \A k \in 1..Len(hist) :
            /\ (~hist[k].out.ok /\ Includes(hist[k].out.err, "policy")) =>
                  /\ IsAPIError(hist[k].out.err)
                  /\ Len(hist) = k
                  /\ ClientEnded
            /\ (~hist[k].out.ok /\ hist[k].out.err \in QueueOrUnavailable
                  /\ k < retryConfig.maxAttempts) =>
                  (Len(hist) > k \/ pc \in {"sleeping", "attempt"})

\* a step in which the operation of the Hugging Face client runs once
Operates == mode = "huggingface" /\ calls' = calls + 1

\* C28: on one Hugging Face client used by one call at a time, nothing is
\* connected before the first use; a connection is established only by a run
\* of the operation that finds none cached, so at most one per disconnect(),
\* and each established connection is followed by exactly one endpoint
\* discovery; a run that finds a connection cached keeps it; after
\* disconnect() no connection is cached, and the next run of the operation
\* establishes a new one and discovers again, unless connecting fails.
C28_ConnectOncePerConnection ==
    [][/\ discoveries = connections /\ discoveries' = connections'
       /\ ncalls = 0 => ~hfClient /\ connections = 0
       /\ connections' # connections =>
             /\ Operates
             /\ ~hfClient /\ hfClient'
             /\ connections' = connections + 1
       /\ Operates /\ hfClient => hfClient' /\ connections' = connections
       /\ Operates /\ ~hfClient =>
             \/ hfClient' /\ connections' = connections + 1
             \/ ~hfClient' /\ connections' = connections /\ ~hist'[Len(hist')].out.ok
       /\ Disconnect => ~hfClient']_vars

\* the second call, made after disconnect(), connected and discovered again
\* and ended successfully on its second attempt
C28_Witness ==
    /\ mode = "huggingface"
    /\ ncalls = 2
    /\ connections = 2
    /\ discoveries = 2
    /\ hfClient
    /\ calls = 2
    /\ ~hist[1].out.ok
    /\ hist[2].out.ok
    /\ clientResult.ok

\* C29: when generateImage calls on one Hugging Face client interleave while
\* no connection is cached, one connection is established and one discovery
\* is run, and the calls that are at predict together use the same endpoint.
C29_OneSharedConnection ==
    mode = "huggingface" =>
        /\ connections <= 1
        /\ discoveries <= 1
        /\ \A p, q \in Procs :
              inflight[p].pc = "predict" /\ inflight[q].pc = "predict" =>
                 inflight[p].endpoint = inflight[q].endpoint

----------------------------------------------------------------------------
(* Endpoint discovery *)

\* the patterns, in the order they are preferred
Patterns == <<"predict", "generate", "run", "infer">>

\* the positions of the names that contain a pattern
Containing(eps, k) == {i \in 1..Len(eps) : k \in eps[i].has}

\* r is the first name of eps that contains pattern k
FirstContaining(eps, k, r) ==
    \E i \in Containing(eps, k) :
        /\ r = eps[i].name
        /\ \A j \in Containing(eps, k) : i <= j

\* C30: discovery selects the first name containing 'predict', else the first
\* containing 'generate', else 'run', else 'infer', else the first name; when
\* view_api throws or reports no named endpoint, the endpoint is "/predict".
\* That endpoint is the one predict is then called on.
C30_EndpointSelection ==
    discoveries > 0 =>
        /\ EndpointOrDefault = discoveredEndpoint
        /\ IF apiInfo.threw \/ Len(apiInfo.endpoints) = 0
           THEN discoveredEndpoint = "/predict"
           ELSE IF \E n \in 1..Len(Patterns) : Containing(apiInfo.endpoints, Patterns[n]) # {}
           THEN \E n \in 1..Len(Patterns) :
                   /\ FirstContaining(apiInfo.endpoints, Patterns[n], discoveredEndpoint)
                   /\ \A m \in 1..(n - 1) : Containing(apiInfo.endpoints, Patterns[m]) = {}
           ELSE discoveredEndpoint = apiInfo.endpoints[1].name

\* 'generate' in second place was preferred to 'run' in first place
C30_Witness ==
    /\ discoveries = 1
    /\ ~apiInfo.threw
    /\ Len(apiInfo.endpoints) = 2
    /\ apiInfo.endpoints[1].name = "/run"
    /\ apiInfo.endpoints[2].name = "/generate"
    /\ discoveredEndpoint = "/generate"

----------------------------------------------------------------------------
(* Extraction of the image from a queue-based response *)

Strategies ==
    <<"gallery URL", "gallery relative path", "array gallery",
      "inline base64 data URI", "item URL", "direct data URI">>

\* the locators a strategy reads in a result
GalleryOf(r) == IF HasGallery(r) THEN r.data[1].items ELSE << >>
LocatorsOf(n, r) ==
    LET items == GalleryOf(r)
    IN  IF n = 1
        THEN {items[i].url : i \in {j \in 1..Len(items) : r.shape = "object" /\ items[j].image = "object"}}
        ELSE IF n = 2
        THEN {items[i].path : i \in {j \in 1..Len(items) : r.shape = "object" /\ items[j].image = "object"}}
        ELSE IF n = 3
        THEN {items[i].url : i \in {j \in 1..Len(items) : r.shape = "array" /\ items[j].image = "string"}}
        ELSE IF n = 4
        THEN {r.data[i].loc : i \in {j \in 1..Len(r.data) : r.shape = "object" /\ r.data[j].kind = "datauri"}}
        ELSE IF n = 5
        THEN {r.data[i].loc : i \in {j \in 1..Len(r.data) : r.shape = "object" /\ r.data[j].kind = "urlobj"}}
        ELSE IF r.shape = "string" THEN {r.loc} ELSE {}

\* the images strategy n can produce from a result
ImagesOf(n, r) == {l.bytes : l \in {m \in LocatorsOf(n, r) : m.present /\ ~m.throws}}

\* strategies of the same loop of the code are tried item by item
SameLoop(m, n) == {m, n} \subseteq {1, 2} \/ {m, n} \subseteq {4, 5}

\* C31: extractImageData tries every strategy in order (gallery URL, gallery
\* relative path, array gallery, inline base64 data URI, item URL, direct data
\* URI): it raises 'Unable to extract image data' only when no strategy could
\* produce an image, a strategy that fails does not keep a later one from
\* producing the image, and the image returned is one of the first strategy
\* (or loop of strategies) that can produce one
C31_EveryStrategyTried ==
    imageData # NoImageData =>
        /\ ~imageData.ok /\ imageData.err = UnableToExtract =>
              \A n \in 1..Len(Strategies) : ImagesOf(n, gradioResult) = {}
        /\ \A n \in 1..Len(Strategies) :
              ImagesOf(n, gradioResult) # {} => imageData.ok
        /\ imageData.ok =>
              \E n \in 1..Len(Strategies) :
                 /\ imageData.bytes \in ImagesOf(n, gradioResult)
                 /\ \A m \in 1..(n - 1) :
                       SameLoop(m, n) \/ ImagesOf(m, gradioResult) = {}

----------------------------------------------------------------------------
(* The batch driver takes the cards one after the other *)

----------------------------------------------------------------------------
(* Termination of the retry engine *)

\* executeWithRetry is running: an attempt or a backoff sleep is pending
EngineRunning == pc \in {"attempt", "sleeping"}

----------------------------------------------------------------------------
(* Errors the operation could not classify *)

\* the operation rethrew the error as it was, or as Error('Unknown error
\* occurred'): it is of none of the classes of the taxonomy
Unclassified(out) ==
    /\ ~out.ok
    /\ out.err.cls \notin {"APIError", "RateLimitError", "NetworkError", "ConnectionError",
                           "NetworkTimeoutError"}

----------------------------------------------------------------------------
(* A failed backend leaves the file system alone *)

\* what simulateNetworkFailure throws
MockFailures == {MockFailure(t) : t \in FailureTypes \cup {Undefined}}

\* the running call failed in its backend: the client threw, or the mock
\* generator simulated a network failure
BackendFailed ==
    IF mode = "mock" THEN clientResult.err \in MockFailures
    ELSE clientResult # NoClientResult /\ ~clientResult.ok

\* C35: when generateImage returns success=false because the backend (a
\* client, or the mock generator) failed, the directories and the files are
\* those of the moment the call began: outputDir was not created and no file
\* was written
C35_FailedBackendWritesNothing ==
    (caller = "facade" /\ pc = "done" /\ ~result.success /\ BackendFailed) =>
        /\ dirs = fsBefore.dirs
        /\ files = fsBefore.files

\* a call failed in its backend after an earlier call had written its image:
\* the directory and the file of the earlier call are all there is
C35_Witness ==
    /\ caller = "facade"
    /\ mode = "pollinations"
    /\ ncalls = 2
    /\ pc = "done"
    /\ ~result.success
    /\ BackendFailed
    /\ calls = retryConfig.maxAttempts
    /\ fsBefore.dirs = OutputDirs
    /\ Cardinality(DOMAIN fsBefore.files) = 1
    /\ dirs = fsBefore.dirs
    /\ files = fsBefore.files

----------------------------------------------------------------------------
(* The attempt counters of the mock generator are kept per request *)

\* the counter a map holds for a key
CountIn(counts, key) == IF key \in DOMAIN counts THEN counts[key] ELSE 0

\* the requests other than the one of the running call
OtherRequests ==
    {r \in CardIds \X Questions : r # <<cardId, question>>}

\* C36: a generateMockImage call for one (cardId, question) changes the
\* attempt counter of that request only: the counter of every other request,
\* and with it whether the next call for that request simulates a failure,
\* is as it was before the call
C36_OtherCountersKept ==
    [][Generates =>
          \A r \in OtherRequests :
             /\ CountIn(attemptCounts', RequestKey(r[1], r[2]))
                   = CountIn(attemptCounts, RequestKey(r[1], r[2]))
             /\ \A draw \in RandomDraws :
                   ShouldFail(failureConfig', CountIn(attemptCounts', RequestKey(r[1], r[2])) + 1, draw)
                      = ShouldFail(failureConfig, CountIn(attemptCounts, RequestKey(r[1], r[2])) + 1, draw)]_vars

\* a call for one card was made between the two calls made for the other, or
\* before them: the second call for that card found its counter at 1 and
\* reached the threshold of 2
C36_Witness ==
    /\ failureConfig.failureMode \notin {"none", "random"}
    /\ Threshold = 2
    /\ pc = "done"
    /\ Cardinality(DOMAIN attemptCounts) = 2
    /\ mockLast.key = RequestKey(cardId, question)
    /\ mockLast.nth = 2
    /\ mockLast.before = 1
    /\ mockLast.out.ok
    /\ attemptCounts[mockLast.key] = 2
    /\ \A k \in DOMAIN attemptCounts \ {mockLast.key} : attemptCounts[k] = 1

----------------------------------------------------------------------------
(* The counts of a batch *)

====
